---------------------------- MODULE Spec2Model ----------------------------
(***************************************************************************)
(* The fishing interaction subsystem of the fishing game: FishingSystem    *)
(* (the state machine), FishingLine (line and physics hook) and the engine *)
(* services they use (delayed calls, pointer events, the physics step).    *)
(*                                                                         *)
(* Handlers are sequential code that calls other handlers in the middle    *)
(* (reset() inside a timer callback, startCast inside update).  Each       *)
(* handler is therefore an operator from a machine record m to the machine *)
(* record after the handler; an action applies one handler to the current  *)
(* variables and commits the result.                                       *)
(***************************************************************************)
EXTENDS Integers, Sequences, FiniteSets, TLC

VARIABLES
    state,               \* FishingSystem.state
    rightClickPressed,   \* FishingSystem.rightClickPressed
    catchCallback,       \* FishingSystem.catchCallback is non-null
    fishingTimer,        \* FishingSystem.fishingTimer   ("null" or "set")
    catchWindow,         \* FishingSystem.catchWindow    ("null" or "set")
    hookSettleTimer,     \* FishingSystem.hookSettleTimer("null" or "set")
    autoRetractEnabled,  \* FishingSystem.autoRetractEnabled
    lastHookPosition,    \* FishingSystem.lastHookPosition
    isActive,            \* FishingLine.isActive
    endPoint,            \* FishingLine.endPoint
    hookActive,          \* FishingLine.hook: active, body.enable, visible
    hookPos,             \* FishingLine.hook position (moved by the physics)
    touchingDown,        \* FishingLine.hook.body.touching.down
    timers,              \* the scene clock's pending delayed calls, in firing order
    pressedIn,           \* history: the state in which rightClickPressed was latched
    ev,                  \* history: what the last handler did (with the
                         \* write-only flag FishingSystem.fishEscaped)
    seed,                \* TerrainSystem.seed
    loadedChunks,        \* TerrainSystem.loadedChunks: the chunk indices it holds
    lastCenterChunkIndex,\* TerrainSystem.lastCenterChunkIndex
    chunkCache,          \* TerrainSystem.chunkCache: chunk index -> blocks
    terrainGroup,        \* TerrainSystem.terrainGroup: the active blocks, by column
    waterZones,          \* WaterZoneSystem.waterZones: the zone chunk indices it holds
    activeZones,         \* WaterZoneSystem.activeZones
    waterSeed,           \* WaterZoneSystem.seed
    generatedZones,      \* history: every zone generated so far
    unloadedBefore,      \* history: the chunks unloadChunk was called for so far
    faults,              \* history: exceptions raised in the streamers so far
    created,             \* history: every column of blocks created so far
    sev                  \* history: what the last streamer call did

\* The variables of the fishing subsystem.
fvars == <<state, rightClickPressed, catchCallback, fishingTimer, catchWindow,
           hookSettleTimer, autoRetractEnabled, lastHookPosition,
           isActive, endPoint, hookActive, hookPos, touchingDown, timers,
           pressedIn, ev>>

\* The variables of the terrain and water-zone streamers.
svars == <<seed, loadedChunks, lastCenterChunkIndex, chunkCache, terrainGroup,
           waterZones, activeZones, waterSeed, generatedZones, unloadedBefore,
           faults, created, sev>>

vars == <<fvars, svars>>

(***************************************************************************)
(* Bounds of the model.                                                    *)
(***************************************************************************)
\* Pending delayed calls the clock may hold at once.
MaxTimers == 2

\* World positions of the hook (pixels along the cast), the rod tip first:
\* two out of the water, hookMovementThreshold apart, and one in the water.
Positions == {0, 15, 30}

\* The rod tip, where a cast starts.
TipPos == 0

\* The water rectangle handed to the constructor: positions it contains.
waterArea == [left |-> 20, right |-> 30]

\* Bite delays drawn by Phaser.Math.Between(1000, 4000).
BiteDelays == {1000, 4000}

\* Every value of Math.random(), in hundredths of [0, 1).
Hundredths == 0..99

\* Values of Math.random(), in hundredths.
Draws == {5, 10, 29, 30, 59, 60, 89, 90}

(***************************************************************************)
(* Program constants.                                                      *)
(***************************************************************************)
catchWindowDuration == 2000
hookMovementThreshold == 15
LaunchDelay == 100
ReelDuration == 1500
DisplayDelay == 1000
SettleDelay == 1000

FishingState == {"IDLE", "CASTING", "FISHING", "WAITING_FOR_BITE", "BITE",
                 "REELING", "CAUGHT"}

Items == {"treasure", "junk", "common_fish", "uncommon_fish", "rare_fish"}

TimerKinds == {"launch", "bite", "catchWindow", "reel", "display", "settle"}

Slots == {"fishingTimer", "catchWindow", "hookSettleTimer"}

\* Where an exception may be raised inside FishingSystem.update.
\*   rod, line, input, indicator: propagate to the outer catch
\*   water, settle: caught by the inner catch of the water detection
\*   lineInner: raised and caught inside FishingLine.update
\*   castEarly, castLate: raised and caught inside startCast, before the rod
\*     animation or by the scheduling of the launch
FailPoints == {"none", "rod", "line", "lineInner", "input", "castEarly",
               "castLate", "water", "settle", "indicator"}

Min(a, b) == IF a < b THEN a ELSE b

Abs(a) == IF a < 0 THEN -a ELSE a

\* Phaser.Math.Distance.Between on the one axis of the model.
Distance(a, b) == Abs(a - b)

(***************************************************************************)
(* The machine record.                                                     *)
(***************************************************************************)
Cur == [state |-> state, rightClickPressed |-> rightClickPressed,
        catchCallback |-> catchCallback, fishingTimer |-> fishingTimer,
        catchWindow |-> catchWindow, hookSettleTimer |-> hookSettleTimer,
        autoRetractEnabled |-> autoRetractEnabled,
        lastHookPosition |-> lastHookPosition, isActive |-> isActive,
        endPoint |-> endPoint, hookActive |-> hookActive, hookPos |-> hookPos,
        touchingDown |-> touchingDown, timers |-> timers,
        pressedIn |-> pressedIn, ev |-> ev]

\* The history record of a handler that has done nothing yet.
NoEvent(op, kind, stale) ==
    [op |-> op,              \* "update", "timer", "reset", "env" or "draw"
     kind |-> kind,          \* the kind of the delayed call dispatched
     stale |-> stale,        \* that call was scheduled before a reset()
     from |-> state,         \* the state the handler started in
     changes |-> <<>>,       \* its assignments to state: <<from, to, by>>
     call |-> "none",        \* the item handed to the catch callback
     callIn |-> "none",      \* the state in which the catch callback was invoked
     callHook |-> FALSE,     \* the hook was active when it was invoked
     launch |-> FALSE,       \* the hook was launched
     anim |-> FALSE,         \* rod.playCastAnimation() was called
     sched |-> <<>>,         \* the kinds of the delayed calls it scheduled
     reelBy |-> "none",      \* the input that started reeling: "key", "click"
     pressed |-> "none",     \* the state in which that click was latched
     failed |-> "none",      \* the point of update that raised
     moved |-> -1,           \* the movement checkHookSettled measured
     cancelled |-> {},       \* the kinds of the delayed calls it removed
     rand |-> -1,            \* the draws handed to determineCaughtItem
     fishRand |-> -1,
     item |-> "none",        \* the item it returned
     offset |-> <<0, 0>>,    \* mousePosition - tipPosition, in pixels
     facingRight |-> TRUE,   \* the isFacingRight handed to calculateCastDirection
     direction |-> <<0, 0>>, \* the direction it returned, in thousandths
     fishEscaped |-> FALSE]  \* this.fishEscaped = true

Begin(op, kind, stale) == [Cur EXCEPT !.ev = NoEvent(op, kind, stale)]

CommitFishing(m) ==
    /\ Len(m.timers) <= MaxTimers
    /\ state' = m.state
    /\ rightClickPressed' = m.rightClickPressed
    /\ catchCallback' = m.catchCallback
    /\ fishingTimer' = m.fishingTimer
    /\ catchWindow' = m.catchWindow
    /\ hookSettleTimer' = m.hookSettleTimer
    /\ autoRetractEnabled' = m.autoRetractEnabled
    /\ lastHookPosition' = m.lastHookPosition
    /\ isActive' = m.isActive
    /\ endPoint' = m.endPoint
    /\ hookActive' = m.hookActive
    /\ hookPos' = m.hookPos
    /\ touchingDown' = m.touchingDown
    /\ timers' = m.timers
    /\ pressedIn' = m.pressedIn
    /\ ev' = m.ev

Commit(m) == CommitFishing(m) /\ UNCHANGED svars

\* this.state = s, inside handler `by`.
SetState(m, s, by) ==
    [m EXCEPT !.state = s, !.ev.changes = Append(@, <<m.state, s, by>>)]

(***************************************************************************)
(* The scene clock (scene.time.delayedCall, TimerEvent.remove).            *)
(*                                                                         *)
(* timers lists the pending calls in the order in which they will fire.    *)
(* A call scheduled now with delay d fires after every pending call whose  *)
(* delay is at most d (that one was scheduled earlier and is due no        *)
(* later); relative to a pending call with a longer delay it may fire      *)
(* before or after, depending on how much of that delay has elapsed: k     *)
(* chooses how many of those it overtakes.                                 *)
(***************************************************************************)
Trailing(q, d) ==
    CHOOSE j \in 0..Len(q) :
        /\ \A i \in (Len(q) - j + 1)..Len(q) : q[i].delay > d
        /\ j < Len(q) => q[Len(q) - j].delay <= d

InsertTimer(q, t, k) ==
    LET pos == Len(q) - Min(k, Trailing(q, t.delay))
    IN  SubSeq(q, 1, pos) \o <<t>> \o SubSeq(q, pos + 1, Len(q))

\* The handle `slot` no longer references the calls it referenced.
Orphan(q, slot) ==
    [i \in 1..Len(q) |-> IF q[i].slot = slot THEN [q[i] EXCEPT !.slot = "none"]
                                            ELSE q[i]]

\* handle = scene.time.delayedCall(delay, callback); slot "none": no handle kept.
DelayedCall(m, kind, delay, slot, item, k) ==
    LET t == [kind |-> kind, delay |-> delay, slot |-> slot, item |-> item,
              stale |-> FALSE]
        q == IF slot = "none" THEN m.timers ELSE Orphan(m.timers, slot)
        m1 == [m EXCEPT !.timers = InsertTimer(q, t, k),
                        !.ev.sched = Append(@, kind)]
    IN  IF slot = "none" THEN m1 ELSE [m1 EXCEPT ![slot] = "set"]

\* if (handle) { handle.remove(); handle = null; }
RemoveHandle(m, slot) ==
    IF m[slot] = "null" THEN m
    ELSE [m EXCEPT !.timers = SelectSeq(@, LAMBDA t : t.slot # slot),
                   ![slot] = "null",
                   !.ev.cancelled = @ \cup {m.timers[i].kind :
                                               i \in {j \in 1..Len(m.timers) :
                                                         m.timers[j].slot = slot}}]

\* handle = null, without remove().
ClearHandle(m, slot) ==
    [m EXCEPT !.timers = Orphan(@, slot), ![slot] = "null"]

Pending(kind) == {i \in 1..Len(timers) : timers[i].kind = kind}


(***************************************************************************)
(* FishingLine.                                                            *)
(***************************************************************************)
\* waterRect.contains(endPoint.x, endPoint.y)
IsInWater(m) == waterArea.left <= m.endPoint /\ m.endPoint <= waterArea.right

\* FishingLine.reset()
LineReset(m) ==
    [m EXCEPT !.isActive = FALSE, !.hookActive = FALSE]

\* FishingLine.castWithDistance(...); fail: an exception inside its try block,
\* raised by the hook calls after the start and end points were set.
CastWithDistance(m, fail) ==
    LET m1 == [m EXCEPT !.endPoint = TipPos]
    IN  IF fail THEN LineReset(m1)
        ELSE [m1 EXCEPT !.hookPos = TipPos, !.hookActive = TRUE,
                        !.isActive = TRUE, !.ev.launch = TRUE]

\* FishingLine.update(delta); fail: an exception inside its try block;
\* drift: where the fallback integration moves the end point.
LineUpdate(m, fail, drift) ==
    IF ~m.isActive THEN m
    ELSE IF fail THEN LineReset(m)
    ELSE IF m.hookActive THEN [m EXCEPT !.endPoint = m.hookPos]
    ELSE [m EXCEPT !.endPoint = drift]

(***************************************************************************)
(* FishingSystem.                                                          *)
(***************************************************************************)
\* Every call still pending when reset() returns was scheduled before it.
MarkStale(q) == [i \in 1..Len(q) |-> [q[i] EXCEPT !.stale = TRUE]]

\* Mutant: reset() also cancels the calls it keeps no handle of.
ResetCancelsAll(m) ==
    LET m1 == SetState(m, "IDLE", "reset")
        m2 == LineReset(m1)
    IN  [m2 EXCEPT !.rightClickPressed = FALSE, !.pressedIn = "none",
                   !.fishingTimer = "null", !.catchWindow = "null",
                   !.hookSettleTimer = "null", !.timers = <<>>]

\* FishingSystem.reset()
Reset(m) ==
    LET m1 == SetState(m, "IDLE", "reset")
        m2 == LineReset(m1)
        m3 == [m2 EXCEPT !.rightClickPressed = FALSE, !.pressedIn = "none"]
        m4 == RemoveHandle(m3, "fishingTimer")
        m5 == RemoveHandle(m4, "catchWindow")
    IN  [m5 EXCEPT !.timers = MarkStale(@)]

\* Mutant: the bands of determineCaughtItem include their upper ends.
DetermineCaughtItemInclusive(rand, fishRand) ==
    IF rand <= 10 THEN "treasure"
    ELSE IF rand <= 30 THEN "junk"
    ELSE IF fishRand <= 60 THEN "common_fish"
    ELSE IF fishRand <= 90 THEN "uncommon_fish"
    ELSE "rare_fish"

\* FishingSystem.determineCaughtItem(), rand and fishRand in hundredths.
DetermineCaughtItem(rand, fishRand) ==
    IF rand < 10 THEN "treasure"
    ELSE IF rand < 30 THEN "junk"
    ELSE IF fishRand < 60 THEN "common_fish"
    ELSE IF fishRand < 90 THEN "uncommon_fish"
    ELSE "rare_fish"

\* FishingSystem.startCast(isFacingRight); its catch block puts the state
\* back to IDLE without reset().
StartCast(m, k, fail) ==
    LET m1 == SetState(m, "CASTING", "startCast")
        m2 == [m1 EXCEPT !.ev.anim = TRUE, !.lastHookPosition = TipPos]
        m3 == RemoveHandle(m2, "hookSettleTimer")
        caught(x) == SetState([x EXCEPT !.ev.failed = fail], "IDLE", "startCast")
    IN  IF fail = "castEarly" THEN caught(m1)
        ELSE IF fail = "castLate" THEN caught(m3)
        ELSE DelayedCall(m3, "launch", LaunchDelay, "none", "none", k)

\* Mutant: startFishing schedules no bite timer.
StartFishingNoTimer(m, biteDelay, k) ==
    IF m.state # "CASTING" THEN m
    ELSE SetState(m, "WAITING_FOR_BITE", "startFishing")

\* FishingSystem.startFishing()
StartFishing(m, biteDelay, k) ==
    IF m.state # "CASTING" THEN m
    ELSE DelayedCall(SetState(m, "WAITING_FOR_BITE", "startFishing"),
                     "bite", biteDelay, "fishingTimer", "none", k)

\* FishingSystem.triggerBite()
TriggerBite(m, k) ==
    IF m.state # "WAITING_FOR_BITE" THEN m
    ELSE DelayedCall(SetState(m, "BITE", "triggerBite"),
                     "catchWindow", catchWindowDuration, "catchWindow", "none", k)

\* Mutant: the callback of the catch window does nothing.
CatchWindowIgnored(m) == m

\* The callback of the catch window started by triggerBite.
CatchWindowExpired(m) ==
    IF m.state = "BITE" THEN Reset([m EXCEPT !.ev.fishEscaped = TRUE]) ELSE m

\* Mutant: startReeling leaves the catch window running.
StartReelingKeepsWindow(m, k) ==
    IF m.state # "BITE" THEN m
    ELSE DelayedCall(SetState(m, "REELING", "startReeling"),
                     "reel", ReelDuration, "fishingTimer", "none", k)

\* FishingSystem.startReeling()
StartReeling(m, k) ==
    IF m.state # "BITE" THEN m
    ELSE LET m1 == SetState(m, "REELING", "startReeling")
             m2 == RemoveHandle(m1, "catchWindow")
         IN  DelayedCall(m2, "reel", ReelDuration, "fishingTimer", "none", k)

\* FishingSystem.catchFish()
CatchFish(m, rand, fishRand, k) ==
    IF m.state # "REELING" THEN m
    ELSE LET caughtItem == DetermineCaughtItem(rand, fishRand)
         IN  DelayedCall([SetState(m, "CAUGHT", "catchFish") EXCEPT
                              !.ev.item = caughtItem],
                         "display", DisplayDelay, "none", caughtItem, k)

\* The callback of the display delay started by catchFish.
DisplayElapsed(m, caughtItem) ==
    LET m1 == Reset(m)
    IN  IF m1.catchCallback
        THEN [m1 EXCEPT !.ev.call = caughtItem, !.ev.callIn = m1.state,
                        !.ev.callHook = m1.hookActive]
        ELSE m1

\* Mutant: the settle callback ignores autoRetractEnabled.
SettleElapsedAlways(m) ==
    IF ~m.touchingDown THEN ClearHandle(m, "hookSettleTimer")
    ELSE IF ~IsInWater(m) THEN ClearHandle(Reset(m), "hookSettleTimer")
    ELSE ClearHandle(m, "hookSettleTimer")

\* The callback of the settle delay started by checkHookSettled.
SettleElapsed(m) ==
    LET nowInWater == IsInWater(m)
    IN  IF ~m.touchingDown THEN ClearHandle(m, "hookSettleTimer")
        ELSE IF ~nowInWater /\ m.autoRetractEnabled
             THEN ClearHandle(Reset(m), "hookSettleTimer")
             ELSE ClearHandle(m, "hookSettleTimer")

\* The test of checkHookSettled: the hook rests on terrain.
HookSettled(m) ==
    /\ m.touchingDown
    /\ Distance(m.lastHookPosition, m.endPoint) < hookMovementThreshold

\* Mutant: checkHookSettled leaves a pending settle delay running.
CheckHookSettledNoCancel(m, k) ==
    LET seen == [m EXCEPT !.ev.moved = Distance(m.lastHookPosition, m.endPoint)]
        upd(x) == [x EXCEPT !.lastHookPosition = x.endPoint]
    IN  IF HookSettled(m)
        THEN IF m.hookSettleTimer = "null"
             THEN IF IsInWater(m) THEN seen
                  ELSE upd(DelayedCall(seen, "settle", SettleDelay,
                                       "hookSettleTimer", "none", k))
             ELSE upd(seen)
        ELSE upd(seen)

\* FishingSystem.checkHookSettled()
CheckHookSettled(m, k) ==
    LET seen == [m EXCEPT !.ev.moved = Distance(m.lastHookPosition, m.endPoint)]
        upd(x) == [x EXCEPT !.lastHookPosition = x.endPoint]
    IN  IF HookSettled(m)
        THEN IF m.hookSettleTimer = "null"
             THEN IF IsInWater(m) THEN seen
                  ELSE upd(DelayedCall(seen, "settle", SettleDelay,
                                       "hookSettleTimer", "none", k))
             ELSE upd(seen)
        ELSE upd(RemoveHandle(seen, "hookSettleTimer"))

\* Mutant: the cast input is accepted in every state.
CastInputAnyState(m, justDown) == justDown \/ m.rightClickPressed

\* The cast input test of update.
CastInput(m, justDown) ==
    m.state = "IDLE" /\ (justDown \/ m.rightClickPressed)

\* The reel input test of update.
ReelInput(m, justDown) ==
    m.state = "BITE" /\ (justDown \/ m.rightClickPressed)

\* Mutant: the catch blocks only log.
CaughtLogsOnly(m, fail) == [m EXCEPT !.ev.failed = fail]

\* The catch blocks of update: log and reset().
Caught(m, fail) == Reset([m EXCEPT !.ev.failed = fail])

\* update, the two input checks; k places the call they schedule.
InputChecks(m, jdCast, jdReel, k, fail) ==
    LET consumed(x) == [x EXCEPT !.rightClickPressed = FALSE, !.pressedIn = "none"]
        m1 == IF CastInput(m, jdCast) THEN consumed(StartCast(m, k, fail)) ELSE m
    IN  IF ReelInput(m1, jdReel)
        THEN consumed(StartReeling(
                 [m1 EXCEPT !.ev.reelBy = IF jdReel THEN "key" ELSE "click",
                            !.ev.pressed = m1.pressedIn], k))
        ELSE m1

\* update, the bite indicator follows the hook.
IndicatorStep(m, fail) ==
    IF m.state = "BITE" /\ fail = "indicator" THEN Caught(m, fail) ELSE m

\* update, the water detection with its own try block.
WaterCheck(m, fail) ==
    IF ~(m.state = "CASTING" /\ m.isActive) THEN {m}
    ELSE IF fail = "water" THEN {Caught(m, fail)}
    ELSE IF IsInWater(m)
         THEN {StartFishing(m, d, k) :
                   d \in BiteDelays, k \in 0..Len(m.timers)}
         ELSE IF fail = "settle" THEN {Caught(m, fail)}
              ELSE {CheckHookSettled(m, k) : k \in 0..Len(m.timers)}

\* FishingSystem.update(playerX, playerY, isFacingRight, delta): every machine
\* it may leave, over the key edges, the exception raised and the clock.
UpdateResults(m, fail) ==
    IF fail = "rod" \/ fail = "line" THEN {Caught(m, fail)}
    ELSE LET inner == fail = "lineInner" /\ m.isActive
             lines == {LineUpdate(m, inner, drift) :
                          drift \in IF m.isActive /\ ~m.hookActive
                                    THEN Positions ELSE {m.endPoint}}
             marked == {IF inner THEN [x EXCEPT !.ev.failed = fail] ELSE x :
                           x \in lines}
         IN  IF fail = "input" THEN {Caught(x, fail) : x \in marked}
             ELSE LET checked ==
                          {InputChecks(x, jdCast, jdReel, k, fail) :
                              x \in marked,
                              jdCast \in IF m.state = "IDLE" THEN BOOLEAN ELSE {FALSE},
                              jdReel \in IF m.state = "BITE" THEN BOOLEAN ELSE {FALSE},
                              k \in 0..Len(m.timers)}
                  IN  {IndicatorStep(y, fail) :
                          y \in UNION {WaterCheck(x, fail) : x \in checked}}

(***************************************************************************)
(* Actions.                                                                *)
(***************************************************************************)
\* The history record of a streamer call that has done nothing yet.
NoStreamEvent(op) ==
    [op |-> op,            \* "none", "terrain", "water" or "scene"
     camera |-> 0,         \* the camera position handed to the call
     center |-> 0,         \* the centre chunk of the call
     skipped |-> FALSE,    \* the movement threshold skipped the call
     before |-> {},        \* the loaded chunk indices when the call started
     requested |-> {},     \* the chunks handed to generateChunk
     restored |-> {},      \* ... of which restored from the cache
     noise |-> {},         \* the chunks for which the noise function ran
     made |-> {},          \* the block instances created
     unloaded |-> {},      \* the chunks deleted from the loaded set
     failed |-> {},        \* the chunks whose generation raised
     failedUnload |-> {},  \* the chunks whose unloading raised
     zonesBefore |-> {},   \* the zone chunks held when the call started
     zoneRange |-> {},     \* the zone chunks in the load range
     zoneFailed |-> {},    \* the zone chunks whose generation raised
     evicted |-> FALSE,    \* the unload pass of the water zones ran
     evictFailed |-> FALSE,\* the unload pass raised
     zonesMade |-> {},     \* the zones generated, with their areas before the
                           \* adjustment to the terrain
     sawChunks |-> {},     \* the loaded chunks the fishing update of the frame saw
     sawZones |-> {},      \* the zone chunks the fishing update of the frame saw
     point |-> <<0, 0>>,   \* the point of a query
     inWater |-> FALSE,    \* the result of isInWater
     typeAt |-> "null",    \* the result of getWaterTypeAt
     populationAt |-> <<>>,\* the result of getFishPopulationAt, <<>> for null
     chunkIndex |-> 0,     \* the argument of determineZoneType
     noiseValue |-> 0,     \* the noise value it computed, in thousandths
     zoneType |-> "none",  \* its result
     types |-> <<>>,       \* the materials of a generated column, from the
                           \* ground up; "water" for a block that is no solid
     visible |-> <<>>]     \* the result of getVisibleChunkIndices

\* The streamers as their constructors leave them, with seeds s and ws.
StreamFieldsStart(s, ws) ==
    /\ seed = s
    /\ waterSeed = ws
    /\ generatedZones = {}
    /\ unloadedBefore = {}
    /\ loadedChunks = {}
    /\ lastCenterChunkIndex = 0
    /\ chunkCache = {}
    /\ terrainGroup = {}
    /\ waterZones = {}
    /\ activeZones = <<>>
    /\ faults = 0
    /\ created = {}

StreamStart(s, ws) ==
    /\ StreamFieldsStart(s, ws)
    /\ sev = NoStreamEvent("none")

\* The fields of the fishing system as its constructor leaves them.
FishingFieldsStart ==
    /\ state = "IDLE"
    /\ rightClickPressed = FALSE
    /\ catchCallback = FALSE
    /\ fishingTimer = "null"
    /\ catchWindow = "null"
    /\ hookSettleTimer = "null"
    /\ autoRetractEnabled \in BOOLEAN
    /\ lastHookPosition = 0
    /\ isActive = FALSE
    /\ endPoint = 0
    /\ hookActive = FALSE
    /\ hookPos = 0
    /\ touchingDown = FALSE
    /\ timers = <<>>
    /\ pressedIn = "none"

\* The fishing system as its constructor leaves it.
FishingStart == FishingFieldsStart /\ ev = NoEvent("env", "none", FALSE)

\* The fishing system reads no state of the streamers: its specification
\* leaves them as constructed, for one pair of seeds.
Init == FishingStart /\ StreamStart(1, 3)

\* The physics world steps the enabled hook body: it moves the hook and sets
\* its touching flags.
PhysicsStep(m, p, td) ==
    IF m.hookActive THEN [m EXCEPT !.hookPos = p, !.touchingDown = td] ELSE m

\* One frame of the scene, after the clock has dispatched the calls that are
\* due: the physics world steps, then FishingSystem.update runs to its end;
\* fails: the exceptions the frame may raise.
Frame(fails) ==
    UNION {UpdateResults(PhysicsStep(Begin("update", "none", FALSE), p, td), fail) :
               fail \in fails,
               p \in IF hookActive THEN Positions ELSE {hookPos},
               td \in IF hookActive THEN BOOLEAN ELSE {touchingDown}}

\* A frame in which nothing raises.
Update == \E m \in Frame({"none"}) : Commit(m)

\* A frame in which a step of update raises an exception.
UpdateRaises == \E m \in Frame(FailPoints \ {"none"}) : Commit(m)

\* The callback of a delayed call, by the kind of call.
Callback(m, t, fail, rand, fishRand, k) ==
    CASE t.kind = "launch"      -> CastWithDistance(m, fail)
      [] t.kind = "bite"        -> TriggerBite(m, k)
      [] t.kind = "catchWindow" -> CatchWindowExpired(m)
      [] t.kind = "reel"        -> CatchFish(m, rand, fishRand, k)
      [] t.kind = "display"     -> DisplayElapsed(m, t.item)
      [] t.kind = "settle"      -> SettleElapsed(m)

\* The scene clock dispatches the next delayed call.
Fire ==
    /\ timers # <<>>
    /\ LET t == Head(timers)
           m == [Begin("timer", t.kind, t.stale) EXCEPT !.timers = Tail(timers)]
       IN  \E fail \in IF t.kind = "launch" THEN BOOLEAN ELSE {FALSE},
              rand \in IF t.kind = "reel" THEN Draws ELSE {0},
              fishRand \in IF t.kind = "reel" THEN Draws ELSE {0},
              k \in 0..(Len(timers) - 1) :
               Commit(Callback(m, t, fail, rand, fishRand, k))

\* 'pointerdown' with the right button down.
PointerDown ==
    \E m \in {Begin("env", "none", FALSE)} :
        Commit([m EXCEPT !.rightClickPressed = TRUE,
                         !.pressedIn = IF rightClickPressed THEN pressedIn
                                                            ELSE state])

\* 'pointerup'.
PointerUp ==
    \E m \in {Begin("env", "none", FALSE)} :
        Commit([m EXCEPT !.rightClickPressed = FALSE, !.pressedIn = "none"])

\* FishingSystem.onCatch(callback)
OnCatch ==
    \E m \in {Begin("env", "none", FALSE)} :
        Commit([m EXCEPT !.catchCallback = TRUE])

\* A call of the public reset() from outside the fishing system.
ExternalReset ==
    \E m \in {Begin("reset", "none", FALSE)} : Commit(Reset(m))

Next ==
    \/ ExternalReset
    \/ Fire
    \/ Update
    \/ UpdateRaises
    \/ PointerDown
    \/ PointerUp
    \/ OnCatch

Spec == Init /\ [][Next]_vars

\* The scene keeps delivering frames and the clock keeps dispatching the calls
\* that are due.
FairSpec == Spec /\ WF_vars(Update) /\ WF_vars(Fire)

\* The fishing system when nothing raises and reset() is not called from
\* outside: frames, pointer input, and the clock dispatching every scheduled
\* call.
CycleNext ==
    \/ Fire
    \/ Update
    \/ PointerDown
    \/ PointerUp

CycleSpec == Init /\ [][CycleNext]_vars /\ WF_vars(Fire)

\* The two values of Math.random() a call of determineCaughtItem will draw.
DrawInit ==
    /\ FishingFieldsStart
    /\ StreamStart(1, 3)
    /\ \E rand \in Hundredths, fishRand \in Hundredths :
           ev = [NoEvent("env", "none", FALSE) EXCEPT !.rand = rand,
                                                     !.fishRand = fishRand]

\* A call of determineCaughtItem on its own, with those draws.
DetermineCall ==
    \E m \in {[Cur EXCEPT !.ev.op = "draw",
                          !.ev.item = DetermineCaughtItem(ev.rand, ev.fishRand)]} :
        Commit(m)

DrawSpec == DrawInit /\ [][DetermineCall]_vars

\* The offsets of the pointer from the rod tip, along each axis, in pixels.
OffsetSteps == {-40, -30, -1, 0, 1, 30, 40}

\* Math.sqrt on whole numbers, rounded down.
ISqrt(n) == CHOOSE r \in 0..6000 : r * r <= n /\ n < (r + 1) * (r + 1)

\* FishingSystem.calculateCastDirection(tipPosition, isFacingRight), the
\* pointer at tipPosition + <<dx, dy>>; y grows downward.  The components of
\* the direction are in thousandths, the distance in hundredths of a pixel.
CalculateCastDirection(dx, dy, isFacingRight) ==
    LET distance == ISqrt(10000 * (dx * dx + dy * dy))
        direction == IF distance > 0
                     THEN <<(dx * 100000) \div distance, (dy * 100000) \div distance>>
                     ELSE <<IF isFacingRight THEN 1000 ELSE -1000, 200>>
        newLength == ISqrt(direction[1] * direction[1] + 700 * 700)
    IN  IF direction[2] > 700
        THEN <<(direction[1] * 1000) \div newLength, (700 * 1000) \div newLength>>
        ELSE direction

\* The pointer position and the facing of a cast about to be aimed.
CastInit ==
    /\ FishingFieldsStart
    /\ StreamStart(1, 3)
    /\ \E dx \in OffsetSteps, dy \in OffsetSteps, isFacingRight \in BOOLEAN :
           ev = [NoEvent("env", "none", FALSE) EXCEPT
                    !.offset = <<dx, dy>>, !.facingRight = isFacingRight]

\* A call of calculateCastDirection on its own.
CalculateCall ==
    /\ ev.op = "env"
    /\ \E m \in {[Cur EXCEPT
                     !.ev.op = "aim",
                     !.ev.direction =
                         CalculateCastDirection(ev.offset[1], ev.offset[2],
                                                ev.facingRight)]} :
           Commit(m)

CastSpec == CastInit /\ [][CalculateCall]_vars

(***************************************************************************)
(* TerrainSystem.                                                          *)
(***************************************************************************)
chunkSize == 16
tileSize == 32
chunkWidth == chunkSize * tileSize
updateThreshold == 2
chunksToLoad == 3
maxDistance == 5
minHeight == 3
maxHeightVariation == 6

\* scene.scale.height, handed to the constructor as worldHeight.
worldHeight == 600

\* The columns of a chunk the model generates: the first and the last of
\* the chunkSize columns.
Columns == <<0, 15>>

\* The camera positions of the calls of update.
CameraXs == {-100, 0, 3500}

\* The chunks whose generation or unloading may raise.
FaultyChunks == {0, 5}

\* The seeds the constructors may draw.
Seeds == {1, 2}
WaterSeeds == {3}

\* Exceptions raised inside the streamers in one behaviour.
MaxFaults == 2

\* Math.sin, in hundredths, of an angle in hundredths of a radian
\* (Bhaskara's rational approximation on each half period).
Sin100(a) ==
    LET r == a % 628
        h(x) == (1600 * x * (314 - x)) \div (5 * 314 * 314 - 4 * x * (314 - x))
    IN  IF r <= 314 THEN h(r) ELSE -h(r - 314)

\* Math.cos, in hundredths.
Cos100(a) == Sin100(a + 157)

\* A noise function that also reads the position of the last update.
NoiseDrifting(x, y, s) ==
    (Sin100(x + 100 * s + 100 * lastCenterChunkIndex) * Cos100(y + 70 * s)) \div 100

\* TerrainSystem.noise(x, y, seed): Math.sin(x + seed) * Math.cos(y + seed * 0.7),
\* x and y in hundredths, the result in hundredths.
Noise(x, y, s) == (Sin100(x + 100 * s) * Cos100(y + 70 * s)) \div 100

\* The height generateChunk gives the column at pixel x (x * 0.01 radians).
ColumnHeight(x, s) ==
    (100 * minHeight + ((Noise(x, 0, s) + 100) * maxHeightVariation) \div 2) \div 100

\* The pixel x of column i of chunk K.
ColumnX(K, i) == K * chunkWidth + i * tileSize + tileSize \div 2

\* TerrainSystem.getTerrainTypeForHeight(currentHeight, totalHeight)
GetTerrainTypeForHeight(currentHeight, totalHeight) ==
    IF currentHeight = totalHeight - 1 THEN "terrain_dirt"
    ELSE IF currentHeight >= totalHeight - 3 THEN "terrain_sand"
    ELSE "terrain_rock"

\* TerrainSystem.createTerrainColumn(x, height): the `height` blocks of the
\* column (block i at y = worldHeight - tileSize / 2 - i * tileSize, its
\* texture getTerrainTypeForHeight(i, height)) as one element of the group:
\* they share x, and are created, removed and restored together.  gen tells
\* the instances of one creation from those of another.
CreateTerrainColumn(x, height, gen) == [x |-> x, height |-> height, gen |-> gen]

\* The textures of the blocks of a column, from the ground up.
ColumnTypes(c) == [j \in 1..c.height |-> GetTerrainTypeForHeight(j - 1, c.height)]

\* Map.has, Map.get and Map.set of chunkCache.
CacheHas(c, K) == \E e \in c : e.chunk = K

CacheGet(c, K) == (CHOOSE e \in c : e.chunk = K).blocks

CacheSet(c, K, B) == {e \in c : e.chunk # K} \cup {[chunk |-> K, blocks |-> B]}

\* The test of unloadChunk: the block lies in chunk K.
InChunk(b, K) == K * chunkWidth <= b.x /\ b.x < K * chunkWidth + chunkWidth

\* The streamers' machine record.
Stream == [seed |-> seed, loadedChunks |-> loadedChunks,
           lastCenterChunkIndex |-> lastCenterChunkIndex,
           chunkCache |-> chunkCache, terrainGroup |-> terrainGroup,
           waterZones |-> waterZones, activeZones |-> activeZones,
           waterSeed |-> waterSeed, generatedZones |-> generatedZones,
           unloadedBefore |-> unloadedBefore,
           faults |-> faults, created |-> created, sev |-> sev]

StreamBegin(op) == [Stream EXCEPT !.sev = NoStreamEvent(op)]

CommitStreamers(t) ==
    /\ t.faults <= MaxFaults
    /\ seed' = t.seed
    /\ loadedChunks' = t.loadedChunks
    /\ lastCenterChunkIndex' = t.lastCenterChunkIndex
    /\ chunkCache' = t.chunkCache
    /\ terrainGroup' = t.terrainGroup
    /\ waterZones' = t.waterZones
    /\ activeZones' = t.activeZones
    /\ waterSeed' = t.waterSeed
    /\ generatedZones' = t.generatedZones
    /\ unloadedBefore' = t.unloadedBefore
    /\ faults' = t.faults
    /\ created' = t.created
    /\ sev' = t.sev

StreamCommit(t) == CommitStreamers(t) /\ UNCHANGED fvars

\* The number of the next creation of blocks for chunk K.
NextGen(t, K) ==
    LET gens == {b.gen : b \in {c \in t.created : InChunk(c, K)}}
    IN  IF gens = {} THEN 1 ELSE 1 + CHOOSE g \in gens : \A h \in gens : h <= g

\* TerrainSystem.generateChunk(chunkIndex); fail: createTerrainColumn raises
\* after `done` columns were created.
GenerateChunk(t, K, fail, done) ==
    IF CacheHas(t.chunkCache, K) /\ CacheGet(t.chunkCache, K) # {}
    THEN [t EXCEPT !.terrainGroup = @ \cup CacheGet(t.chunkCache, K),
                   !.sev.restored = @ \cup {K}]
    ELSE LET n == IF fail THEN done ELSE Len(Columns)
             gen == NextGen(t, K)
             generatedBlocks ==
                 {CreateTerrainColumn(ColumnX(K, Columns[j]),
                                      ColumnHeight(ColumnX(K, Columns[j]), t.seed),
                                      gen) : j \in 1..n}
             t1 == [t EXCEPT !.terrainGroup = @ \cup generatedBlocks,
                             !.created = @ \cup generatedBlocks,
                             !.sev.noise = @ \cup {K},
                             !.sev.made = @ \cup generatedBlocks]
         IN  IF fail
             THEN [t1 EXCEPT !.faults = @ + 1, !.sev.failed = @ \cup {K}]
             ELSE [t1 EXCEPT !.chunkCache = CacheSet(@, K, generatedBlocks)]

\* TerrainSystem.unloadChunk(chunkIndex); fail: it raises before it has
\* removed a block.
UnloadChunk(t, K, fail) ==
    IF fail THEN [t EXCEPT !.faults = @ + 1, !.sev.failedUnload = @ \cup {K}]
    ELSE LET blocksToRemove == {b \in t.terrainGroup : InChunk(b, K)}
         IN  IF blocksToRemove = {} THEN t
             ELSE [t EXCEPT !.chunkCache = IF CacheHas(@, K) THEN @
                                           ELSE CacheSet(@, K, blocksToRemove),
                            !.terrainGroup = @ \ blocksToRemove]

\* Math.floor(cameraX / this.chunkWidth)
CenterChunk(cameraX) == cameraX \div chunkWidth

\* getVisibleChunkIndices with a load radius of 2.
GetVisibleChunkIndicesNarrow(cameraX) ==
    [j \in 1..5 |-> CenterChunk(cameraX) - 2 + j - 1]

\* TerrainSystem.getVisibleChunkIndices(cameraX)
GetVisibleChunkIndices(cameraX) ==
    [j \in 1..(2 * chunksToLoad + 1) |-> CenterChunk(cameraX) - chunksToLoad + j - 1]

\* The least chunk index of a non-empty set.
First(ks) == CHOOSE k \in ks : \A j \in ks : k <= j

\* update, the generation batch: generateChunk, then loadedChunks.set, for
\* each chunk of ks in turn.
RECURSIVE GenerateAll(_, _, _, _)
GenerateAll(t, ks, bad, done) ==
    IF ks = {} THEN t
    ELSE CHOOSE r \in
             {GenerateAll(t1, ks \ {First(ks)}, bad, done) :
                t1 \in {[GenerateChunk(t, First(ks), First(ks) \in bad, done)
                            EXCEPT !.loadedChunks = @ \cup {First(ks)}]}} : TRUE

\* The unload pass with the radius of the visible window as its threshold.
RECURSIVE UnloadAllOutsideWindow(_, _, _, _)
UnloadAllOutsideWindow(t, ks, center, bad) ==
    IF ks = {} THEN t
    ELSE CHOOSE r \in
             {UnloadAllOutsideWindow(t1, ks \ {First(ks)}, center, bad) :
                t1 \in {IF Abs(First(ks) - center) > chunksToLoad
                        THEN [UnloadChunk(t, First(ks), First(ks) \in bad)
                                 EXCEPT !.loadedChunks = @ \ {First(ks)},
                                        !.unloadedBefore = @ \cup {First(ks)},
                                        !.sev.unloaded = @ \cup {First(ks)}]
                        ELSE t}} : TRUE

\* update, the unload pass: unloadChunk, then loadedChunks.delete, for each
\* chunk of ks farther than maxDistance from the centre.
RECURSIVE UnloadAll(_, _, _, _)
UnloadAll(t, ks, center, bad) ==
    IF ks = {} THEN t
    ELSE CHOOSE r \in
             {UnloadAll(t1, ks \ {First(ks)}, center, bad) :
                t1 \in {IF Abs(First(ks) - center) > maxDistance
                        THEN [UnloadChunk(t, First(ks), First(ks) \in bad)
                                 EXCEPT !.loadedChunks = @ \ {First(ks)},
                                        !.unloadedBefore = @ \cup {First(ks)},
                                        !.sev.unloaded = @ \cup {First(ks)}]
                        ELSE t}} : TRUE

\* The skip test of update with the movement threshold alone.
SkipUpdateThresholdOnly(t, centerChunkIndex) ==
    Abs(centerChunkIndex - t.lastCenterChunkIndex) < updateThreshold

\* update: hasLoadedChunks && Math.abs(centerChunkIndex -
\* this.lastCenterChunkIndex) < this.updateThreshold
SkipUpdate(t, centerChunkIndex) ==
    /\ t.loadedChunks # {}
    /\ Abs(centerChunkIndex - t.lastCenterChunkIndex) < updateThreshold

\* TerrainSystem.update(cameraX); badGen, badUnload: the chunks whose
\* generation and unloading raise.
TerrainSystemUpdate(t, cameraX, badGen, done, badUnload) ==
    LET centerChunkIndex == CenterChunk(cameraX)
        t0 == [t EXCEPT !.sev.camera = cameraX,
                        !.sev.center = centerChunkIndex,
                        !.sev.before = t.loadedChunks]
    IN  IF SkipUpdate(t, centerChunkIndex)
        THEN [t0 EXCEPT !.sev.skipped = TRUE]
        ELSE LET visibleChunks == GetVisibleChunkIndices(cameraX)
                 chunksToGenerate ==
                     {visibleChunks[j] : j \in 1..Len(visibleChunks)} \ t.loadedChunks
             IN  CHOOSE t3 \in
                     {[t2 EXCEPT !.lastCenterChunkIndex = centerChunkIndex] :
                        t2 \in {UnloadAll(t1, t1.loadedChunks, centerChunkIndex, badUnload) :
                                  t1 \in {GenerateAll(
                                              [t0 EXCEPT !.sev.requested = chunksToGenerate],
                                              chunksToGenerate, badGen, done)}}} : TRUE

\* The chunks update(cameraX) generates from scratch, and those it unloads.
Scratch(t, cameraX) ==
    {k \in (CenterChunk(cameraX) - chunksToLoad)..(CenterChunk(cameraX) + chunksToLoad) :
        /\ k \notin t.loadedChunks
        /\ ~(CacheHas(t.chunkCache, k) /\ CacheGet(t.chunkCache, k) # {})}

Distant(t, cameraX) ==
    {k \in t.loadedChunks : Abs(k - CenterChunk(cameraX)) > maxDistance}

\* A call of terrainSystem.update in which nothing raises.
TerrainUpdate ==
    \E cameraX \in CameraXs :
        \E t \in {TerrainSystemUpdate(StreamBegin("terrain"), cameraX, {}, 0, {})} :
            StreamCommit(t)

\* A call of terrainSystem.update in which the generation of one chunk or the
\* unloading of one chunk raises.
TerrainUpdateRaises ==
    \E cameraX \in CameraXs :
        LET t == StreamBegin("terrain")
        IN  /\ ~SkipUpdate(t, CenterChunk(cameraX))
            /\ \E badGen \in {{}} \cup {{k} : k \in Scratch(t, cameraX) \cap FaultyChunks},
                  badUnload \in {{}} \cup {{k} : k \in Distant(t, cameraX) \cap FaultyChunks},
                  done \in 0..(Len(Columns) - 1) :
                   /\ (badGen = {}) # (badUnload = {})
                   /\ badGen = {} => done = 0
                   /\ \E t1 \in {TerrainSystemUpdate(t, cameraX, badGen, done,
                                                     badUnload)} :
                          StreamCommit(t1)

(***************************************************************************)
(* WaterZoneSystem.                                                        *)
(***************************************************************************)
zoneChunkSize == 800

\* scene.cameras.main.width, the width of the game.
viewportWidth == 800

\* WaterZoneSystem.waterFrequency, in hundredths.
waterFrequency == 60

\* WaterZoneSystem.defaultDepth
defaultDepth == 150

\* adjustWaterForTerrain: the margin kept above the terrain, and the least
\* height of water it leaves.
margin == 5
minWater == 30

\* updateVisibleWaterZones: viewportWidth * 1.5, and the distance handed to
\* unloadDistantWaterZones, loadDistance * 1.5.
loadDistance == (viewportWidth * 3) \div 2

unloadDistance == (loadDistance * 3) \div 2

\* WaterZoneSystem.noise(x, y): Math.sin(x * 1.5 + seed) * Math.cos(y * 1.3 +
\* seed * 0.7), mapped from [-1, 1] to [0, 1]; the result in hundredths.
WaterNoise(x, y, s) ==
    ((Sin100(150 * x + 100 * s) * Cos100(130 * y + 70 * s)) \div 100 + 100) \div 2

\* generateWaterZonesInRange: shouldGenerateWater
ShouldGenerateWater(K, s) == K = 0 \/ WaterNoise(K, 99, s) < waterFrequency

\* zone.area.centerX of the zone of chunk K: the area is centred in its chunk
\* for every zone type, and adjustWaterForTerrain changes its height only.
ZoneCenterX(K) == K * zoneChunkSize + zoneChunkSize \div 2

\* The value of noise(chunkIndex, 42) in thousandths: WaterNoise gives the
\* hundredth the value lies in, taken at its middle.
ZoneNoise(K, s) == 10 * WaterNoise(K, 42, s) + 5

\* determineZoneType without its special case for chunk 0.
DetermineZoneTypeByNoise(K, s) ==
    LET noiseValue == ZoneNoise(K, s)
    IN  IF Abs(K) > 5 /\ noiseValue > 400 THEN "ocean"
        ELSE IF noiseValue < 400 THEN "lake"
        ELSE IF noiseValue < 700 THEN "river"
        ELSE "ocean"

\* WaterZoneSystem.determineZoneType(chunkIndex), after the noise value has
\* been computed; noiseValue in thousandths.
ZoneTypeFor(K, noiseValue) ==
    IF K = 0 THEN "lake"
    ELSE IF Abs(K) > 5 /\ noiseValue > 400 THEN "ocean"
    ELSE IF noiseValue < 400 THEN "lake"
    ELSE IF noiseValue < 700 THEN "river"
    ELSE "ocean"

\* WaterZoneSystem.determineZoneType(chunkIndex)
DetermineZoneType(K, s) == ZoneTypeFor(K, ZoneNoise(K, s))

\* generateWaterZoneChunk, the area of the zone by its type, in whole pixels:
\*   lake:  width 800 * (0.5 + n0 * 0.3), height 150 * (0.7 + n1 * 0.2)
\*   river: width 800 * (0.3 + n0 * 0.2), height 600 * (0.25 + n1 * 0.1)
\*   ocean: width 800 * 0.8,              height 150 * (1.0 + n1 * 0.3)
\* with x = chunkX + (zoneChunkSize - width) / 2 and y = worldHeight - height.
ZoneArea(K, type, s) ==
    LET n0 == WaterNoise(K, 0, s)
        n1 == WaterNoise(K, 1, s)
        width == CASE type = "lake"  -> (zoneChunkSize * (50 + (n0 * 30) \div 100)) \div 100
                   [] type = "river" -> (zoneChunkSize * (30 + (n0 * 20) \div 100)) \div 100
                   [] type = "ocean" -> (zoneChunkSize * 80) \div 100
        height == CASE type = "lake"  -> (defaultDepth * (70 + (n1 * 20) \div 100)) \div 100
                    [] type = "river" -> (worldHeight * (25 + (n1 * 10) \div 100)) \div 100
                    [] type = "ocean" -> (defaultDepth * (100 + (n1 * 30) \div 100)) \div 100
    IN  [x |-> K * zoneChunkSize + (zoneChunkSize - width) \div 2,
         y |-> worldHeight - height, width |-> width, height |-> height]

\* The top edge of the highest block of a column: block i is centred at
\* worldHeight - tileSize / 2 - i * tileSize.
ColumnTop(c) == worldHeight - c.height * tileSize

\* adjustWaterForTerrain, the loop over the blocks of one column from the
\* ground up: each block above lowestY lowers it to its top less the margin,
\* and every block is tileSize above the one before.
LowestAfterColumn(lowestY, c) ==
    IF ColumnTop(c) < lowestY THEN ColumnTop(c) - margin ELSE lowestY

\* adjustWaterForTerrain, the loop over the children of the terrain group that
\* overlap the area horizontally.
RECURSIVE LowestY(_, _)
LowestY(lowestY, cols) ==
    IF cols = {} THEN lowestY
    ELSE LET c == CHOOSE c \in cols : \A d \in cols : ColumnTop(c) >= ColumnTop(d)
         IN  LowestY(LowestAfterColumn(lowestY, c), cols \ {c})

\* WaterZoneSystem.adjustWaterForTerrain(waterArea): only the height of the
\* area is assigned.
AdjustWaterForTerrain(area, group) ==
    LET over == {c \in group : /\ c.x + tileSize \div 2 >= area.x
                               /\ c.x - tileSize \div 2 <= area.x + area.width}
        lowestY == LowestY(area.y, over)
        newHeight == area.y + area.height - lowestY
    IN  IF lowestY < area.y + area.height /\ newHeight > minWater
        THEN [area EXCEPT !.height = newHeight]
        ELSE area

\* WaterZoneSystem.createFishPopulation(zoneType, chunkIndex)
CreateFishPopulation(type, K, s) ==
    LET population ==
            CASE type = "lake" ->
                     [commonFish |-> {"bass", "bluegill", "crappie", "perch"},
                      uncommonFish |-> {"walleye", "catfish", "pike"},
                      rareFish |-> {"sturgeon", "muskie"},
                      specialItems |-> {"lake_treasure", "rusty_can"}]
              [] type = "river" ->
                     [commonFish |-> {"trout", "chub", "dace"},
                      uncommonFish |-> {"salmon", "grayling", "char"},
                      rareFish |-> {"steelhead", "golden_trout"},
                      specialItems |-> {"river_treasure", "driftwood"}]
              [] type = "ocean" ->
                     [commonFish |-> {"cod", "mackerel", "herring"},
                      uncommonFish |-> {"tuna", "marlin", "swordfish"},
                      rareFish |-> {"shark", "whale", "giant_squid"},
                      specialItems |-> {"sunken_treasure", "ancient_artifact"}]
    IN  IF WaterNoise(K, 123, s) > 70
        THEN [population EXCEPT !.rareFish = @ \cup {"legendary_fish"}]
        ELSE population

\* The zones of activeZones for chunk K, and the zone the map holds under the
\* key of K: the one pushed last.
ZonesOf(zones, K) == {i \in 1..Len(zones) : zones[i].chunk = K}

ZoneAt(zones, K) == CHOOSE i \in ZonesOf(zones, K) : \A j \in ZonesOf(zones, K) : j <= i

\* WaterZoneSystem.generateWaterZoneChunk(chunkIndex, chunkX), when nothing
\* raises: the zone is stored under its key and pushed onto activeZones.  gen
\* tells the zone object from an earlier one of the same chunk.
GenerateWaterZoneChunk(t, K) ==
    LET zoneType == DetermineZoneType(K, t.waterSeed)
        before == ZoneArea(K, zoneType, t.waterSeed)
        zone == [chunk |-> K, type |-> zoneType,
                 area |-> AdjustWaterForTerrain(before, t.terrainGroup),
                 fishPopulation |-> CreateFishPopulation(zoneType, K, t.waterSeed)]
    IN  [t EXCEPT !.waterZones = @ \cup {K},
                  !.activeZones =
                      Append(@, [chunk |-> K, type |-> zone.type, area |-> zone.area,
                                 fishPopulation |-> zone.fishPopulation,
                                 gen |-> 1 + Cardinality(ZonesOf(t.activeZones, K))]),
                  !.generatedZones = @ \cup {zone},
                  !.sev.zonesMade = @ \cup {[zone |-> zone, before |-> before]}]

\* The loop of generateWaterZonesInRange from chunk k on; bad: the chunks for
\* which generateWaterZoneChunk raises (before it has stored the zone).  The
\* loop has no handler: the exception ends it.
RECURSIVE GenerateWaterZonesInRange(_, _, _, _)
GenerateWaterZonesInRange(t, k, endChunk, bad) ==
    IF k > endChunk THEN t
    ELSE IF k \in t.waterZones \/ ~ShouldGenerateWater(k, t.waterSeed)
    THEN GenerateWaterZonesInRange(t, k + 1, endChunk, bad)
    ELSE IF k \in bad
    THEN [t EXCEPT !.faults = @ + 1, !.sev.zoneFailed = @ \cup {k}]
    ELSE CHOOSE r \in {GenerateWaterZonesInRange(t1, k + 1, endChunk, bad) :
                         t1 \in {GenerateWaterZoneChunk(t, k)}} : TRUE

\* The places in activeZones of the zones the map holds that lie farther than
\* maxDist from the camera, in the order of the map.
DistantZones(t, cameraCenterX, maxDist) ==
    {i \in 1..Len(t.activeZones) :
        LET K == t.activeZones[i].chunk
        IN  /\ K \in t.waterZones
            /\ i = ZoneAt(t.activeZones, K)
            /\ Abs(ZoneCenterX(K) - cameraCenterX) > maxDist}

\* The sequence q without the places of `drop`.
Without(q, drop) ==
    LET keep == {i \in 1..Len(q) : i \notin drop}
        RECURSIVE Pick(_)
        Pick(is) == IF is = {} THEN <<>>
                    ELSE LET i == CHOOSE i \in is : \A j \in is : i <= j
                         IN  <<q[i]>> \o Pick(is \ {i})
    IN  Pick(keep)

\* WaterZoneSystem.unloadDistantWaterZones(cameraCenterX, maxDistance); fail:
\* zone.graphics.destroy() raises for the first zone to remove, after every
\* key was deleted and that zone was spliced out of activeZones.
UnloadDistantWaterZones(t, cameraCenterX, maxDist, fail) ==
    LET zonesToRemove == DistantZones(t, cameraCenterX, maxDist)
        keysToRemove == {t.activeZones[i].chunk : i \in zonesToRemove}
        first == CHOOSE i \in zonesToRemove : \A j \in zonesToRemove : i <= j
    IN  IF fail /\ zonesToRemove # {}
        THEN [t EXCEPT !.waterZones = @ \ keysToRemove,
                       !.activeZones = Without(@, {first}),
                       !.faults = @ + 1,
                       !.sev.evictFailed = TRUE]
        ELSE [t EXCEPT !.waterZones = @ \ keysToRemove,
                       !.activeZones = Without(@, zonesToRemove),
                       !.sev.evicted = TRUE]

\* The zone chunks of the load range of a camera position.
ZoneRange(cameraCenterX) ==
    ((cameraCenterX - loadDistance) \div zoneChunkSize) ..
        ((cameraCenterX + loadDistance) \div zoneChunkSize)

\* WaterZoneSystem.update(cameraCenterX) with updateVisibleWaterZones: the
\* handler of update is the only one on the path, so an exception of the
\* generation skips the rest of the range and the unload pass.
WaterZoneSystemUpdate(t, cameraCenterX, bad, badUnload) ==
    LET t0 == [t EXCEPT !.sev.camera = cameraCenterX,
                        !.sev.zonesBefore = t.waterZones,
                        !.sev.zoneRange = ZoneRange(cameraCenterX)]
    IN  CHOOSE t2 \in
            {IF t1.sev.zoneFailed # {} THEN t1
             ELSE UnloadDistantWaterZones(t1, cameraCenterX, unloadDistance, badUnload) :
                t1 \in {GenerateWaterZonesInRange(
                            t0, (cameraCenterX - loadDistance) \div zoneChunkSize,
                            (cameraCenterX + loadDistance) \div zoneChunkSize, bad)}} : TRUE

\* The zone chunks update(cameraCenterX) generates.
ZonesToGenerate(cameraCenterX) ==
    {k \in ZoneRange(cameraCenterX) :
        k \notin waterZones /\ ShouldGenerateWater(k, waterSeed)}

\* A call of waterZoneSystem.update in which nothing raises.
WaterUpdate ==
    \E cameraX \in CameraXs :
        \E t \in {WaterZoneSystemUpdate(StreamBegin("water"), cameraX, {}, FALSE)} :
            StreamCommit(t)

\* A call of waterZoneSystem.update in which the generation of one zone
\* raises, or the removal of a distant zone.
WaterUpdateRaises ==
    \E cameraX \in CameraXs :
        \/ \E k \in ZonesToGenerate(cameraX) :
               \E t \in {WaterZoneSystemUpdate(StreamBegin("water"), cameraX, {k}, FALSE)} :
                   StreamCommit(t)
        \/ \E t \in {WaterZoneSystemUpdate(StreamBegin("water"), cameraX, {}, TRUE)} :
               t.sev.evictFailed /\ StreamCommit(t)

(***************************************************************************)
(* GameplayScene.                                                          *)
(***************************************************************************)
\* GameplayScene.update, a frame in which nothing raises: fishingSystem.update,
\* then terrainSystem.update(cameraCenterX), then
\* waterZoneSystem.update(cameraCenterX).  The history keeps the chunks and
\* zones that were loaded when the fishing update ran.
SceneUpdate ==
    \E cameraX \in CameraXs :
        \E m \in Frame({"none"}) :
            \E t \in {WaterZoneSystemUpdate(t1, cameraX, {}, FALSE) :
                        t1 \in {TerrainSystemUpdate(
                                    [StreamBegin("scene") EXCEPT
                                        !.sev.sawChunks = loadedChunks,
                                        !.sev.sawZones = waterZones],
                                    cameraX, {}, 0, {})}} :
                CommitFishing(m) /\ CommitStreamers(t)

\* The seeds and the chunks over which the height of a column is evaluated.
HeightSeeds == 1..10
HeightChunks == -4..4

\* TerrainSystem.noise(x, y, seed) of the later revision:
\*   Math.sin(x + seed) * Math.cos(y + seed * 0.7)
\*     + Math.sin(x * 0.5 + seed * 0.3) * Math.cos(y * 0.5 + seed * 0.2) * 0.5
NoiseLater(x, y, s) ==
    (Sin100(x + 100 * s) * Cos100(y + 70 * s)) \div 100
        + (Sin100(x \div 2 + 30 * s) * Cos100(y \div 2 + 20 * s)) \div 200

\* The height the later revision of generateChunk gives the column at pixel x:
\* Math.floor(minHeight + ((noise + 1) / 2) * maxHeightVariation).
ColumnHeightLater(x, s) ==
    (100 * minHeight + ((NoiseLater(x, 0, s) + 100) * maxHeightVariation) \div 2) \div 100

\* TerrainSystem.getTerrainTypeAtDepth(depth, noiseValue) of the later
\* revision, noiseValue in hundredths.
GetTerrainTypeAtDepth(depth, noiseValue) ==
    IF noiseValue > 65 THEN "water"
    ELSE IF depth < 2 THEN "terrain_dirt"
    ELSE IF depth < 5 THEN (IF noiseValue > 75 THEN "water" ELSE "terrain_sand")
    ELSE IF depth < 10 THEN (IF noiseValue > 85 THEN "water" ELSE "terrain_rock")
    ELSE "terrain_rock"

\* TerrainSystem.generateTerrainWithWater(x, depth) of the later revision:
\* noise(x * 0.02, depth * 0.03, seed + 1000), mapped to (noise + 1) / 2.
GenerateTerrainWithWater(x, depth, s) ==
    GetTerrainTypeAtDepth(
        depth, (NoiseLater(2 * x, 3 * depth, s + 1000) + 100) \div 2)

\* TerrainSystem.createTerrainColumn(x, height) of the later revision: the
\* materials of the blocks from the ground up.  The block under the lowest
\* water block is forced to terrain_sand; a water block is a rectangle that is
\* not added to the terrain group.
ColumnTypesLater(x, height, s) ==
    LET water == {i \in 0..(height - 1) :
                     GenerateTerrainWithWater(x, i, s) = "water"}
        hasWater == water # {}
        waterDepth == IF hasWater
                      THEN CHOOSE i \in water : \A j \in water : i <= j
                      ELSE -1
    IN  [j \in 1..height |->
            IF hasWater /\ j - 1 = waterDepth - 1 THEN "terrain_sand"
            ELSE GenerateTerrainWithWater(x, j - 1, s)]

\* A terrain system with any seed, about to generate the column at sev.camera.
HeightInit ==
    /\ FishingStart
    /\ autoRetractEnabled = TRUE
    /\ \E s \in HeightSeeds, K \in HeightChunks, i \in 0..(chunkSize - 1) :
           /\ StreamFieldsStart(s, 3)
           /\ sev = [NoStreamEvent("none") EXCEPT !.camera = ColumnX(K, i)]

\* The body of the loop of generateChunk for one column, as TerrainSystem.ts
\* has it.
GenerateColumn ==
    /\ sev.op = "none"
    /\ \E t \in {[Stream EXCEPT
                     !.sev.op = "column",
                     !.sev.types = ColumnTypes(CreateTerrainColumn(
                                       sev.camera, ColumnHeight(sev.camera, seed), 1)),
                     !.created = {CreateTerrainColumn(
                                     sev.camera, ColumnHeight(sev.camera, seed), 1)}]} :
           StreamCommit(t)

\* The same, as the later revision has it.
GenerateColumnLater ==
    /\ sev.op = "none"
    /\ \E t \in {[Stream EXCEPT
                     !.sev.op = "columnLater",
                     !.sev.types = ColumnTypesLater(
                                       sev.camera,
                                       ColumnHeightLater(sev.camera, seed), seed),
                     !.created = {CreateTerrainColumn(
                                     sev.camera, ColumnHeightLater(sev.camera, seed), 1)}]} :
           StreamCommit(t)

HeightNext ==
    \/ GenerateColumn
    \/ GenerateColumnLater

HeightSpec == HeightInit /\ [][HeightNext]_vars

StreamInit ==
    /\ FishingStart
    /\ autoRetractEnabled = TRUE
    /\ \E s \in Seeds, ws \in WaterSeeds : StreamStart(s, ws)

\* The terrain streamer alone, called with any sequence of camera positions.
TerrainNext ==
    \/ TerrainUpdate
    \/ TerrainUpdateRaises

TerrainSpec == StreamInit /\ [][TerrainNext]_vars

\* The camera positions of a camera that roams: in chunks -2, 0, 2 and 3, so
\* that a call can follow one a single chunk away.
RoamCameraXs == {-600, 0, 1100, 1600}

\* A call of terrainSystem.update from the roaming camera in which nothing
\* raises.
RoamUpdate ==
    \E cameraX \in RoamCameraXs :
        \E t \in {TerrainSystemUpdate(StreamBegin("terrain"), cameraX, {}, 0, {})} :
            StreamCommit(t)

\* A call of terrainSystem.update from the roaming camera in which the
\* generation of one chunk or the unloading of one chunk raises.
RoamUpdateRaises ==
    \E cameraX \in RoamCameraXs :
        LET t == StreamBegin("terrain")
        IN  /\ ~SkipUpdate(t, CenterChunk(cameraX))
            /\ \E badGen \in {{}} \cup {{k} : k \in Scratch(t, cameraX) \cap FaultyChunks},
                  badUnload \in {{}} \cup {{k} : k \in Distant(t, cameraX) \cap FaultyChunks},
                  done \in 0..(Len(Columns) - 1) :
                   /\ (badGen = {}) # (badUnload = {})
                   /\ badGen = {} => done = 0
                   /\ \E t1 \in {TerrainSystemUpdate(t, cameraX, badGen, done,
                                                     badUnload)} :
                          StreamCommit(t1)

\* The terrain streamer alone, called from the roaming camera.
RoamNext ==
    \/ RoamUpdate
    \/ RoamUpdateRaises

RoamSpec == StreamInit /\ [][RoamNext]_vars

\* The frames of the scene, and the water-zone streamer called on its own as
\* GameplayScene.create calls it, when nothing raises.
SceneNext ==
    \/ SceneUpdate
    \/ WaterUpdate

SceneSpec == StreamInit /\ [][SceneNext]_vars

\* The points of the queries: inside and above the zones of the chunks the
\* camera positions load.
QueryXs == {-1200, 400, 4400}
QueryYs == {300, 550}

\* zone.area.contains(x, y): the edges of the rectangle are inside.
Contains(area, x, y) ==
    /\ area.x <= x /\ x <= area.x + area.width
    /\ area.y <= y /\ y <= area.y + area.height

\* WaterZoneSystem.isInWater(x, y)
RECURSIVE IsInWaterZone(_, _, _)
IsInWaterZone(zones, x, y) ==
    IF zones = <<>> THEN FALSE
    ELSE IF Contains(Head(zones).area, x, y) THEN TRUE
    ELSE IsInWaterZone(Tail(zones), x, y)

\* WaterZoneSystem.getWaterTypeAt(x, y)
RECURSIVE GetWaterTypeAt(_, _, _)
GetWaterTypeAt(zones, x, y) ==
    IF zones = <<>> THEN "null"
    ELSE IF Contains(Head(zones).area, x, y) THEN Head(zones).type
    ELSE GetWaterTypeAt(Tail(zones), x, y)

\* WaterZoneSystem.getFishPopulationAt(x, y)
RECURSIVE GetFishPopulationAt(_, _, _)
GetFishPopulationAt(zones, x, y) ==
    IF zones = <<>> THEN <<>>
    ELSE IF Contains(Head(zones).area, x, y) THEN <<Head(zones).fishPopulation>>
    ELSE GetFishPopulationAt(Tail(zones), x, y)

\* The three queries at one point, between two updates.
Query ==
    /\ sev.op # "query"
    /\ \E x \in QueryXs, y \in QueryYs :
           \E t \in {[Stream EXCEPT
                        !.sev = [NoStreamEvent("query") EXCEPT
                                    !.point = <<x, y>>,
                                    !.inWater = IsInWaterZone(activeZones, x, y),
                                    !.typeAt = GetWaterTypeAt(activeZones, x, y),
                                    !.populationAt =
                                        GetFishPopulationAt(activeZones, x, y)]]} :
               StreamCommit(t)

\* The streamers as their constructors leave them, as a machine record.
NewStream(s, ws) ==
    [seed |-> s, loadedChunks |-> {}, lastCenterChunkIndex |-> 0,
     chunkCache |-> {}, terrainGroup |-> {}, waterZones |-> {},
     activeZones |-> <<>>, waterSeed |-> ws, generatedZones |-> {},
     unloadedBefore |-> {}, faults |-> 0, created |-> {},
     sev |-> NoStreamEvent("create")]

\* GameplayScene.create, its calls of the streamers with the camera at
\* scrollX = 0: terrainSystem.update(scrollX + width / 2),
\* waterZoneSystem.update(scrollX + width / 2), terrainSystem.update(scrollX).
SceneCreate(s, ws) ==
    CHOOSE t3 \in
        {TerrainSystemUpdate(t2, 0, {}, 0, {}) :
            t2 \in {WaterZoneSystemUpdate(t1, viewportWidth \div 2, {}, FALSE) :
                t1 \in {TerrainSystemUpdate(NewStream(s, ws), viewportWidth \div 2,
                                            {}, 0, {})}}} : TRUE

\* The scene after create: the fishing system as constructed, the terrain and
\* the water zones around the player generated.
PlayInit ==
    /\ FishingStart
    /\ \E t \in {SceneCreate(1, 3)} :
           /\ seed = t.seed
           /\ loadedChunks = t.loadedChunks
           /\ lastCenterChunkIndex = t.lastCenterChunkIndex
           /\ chunkCache = t.chunkCache
           /\ terrainGroup = t.terrainGroup
           /\ waterZones = t.waterZones
           /\ activeZones = t.activeZones
           /\ waterSeed = t.waterSeed
           /\ generatedZones = t.generatedZones
           /\ unloadedBefore = t.unloadedBefore
           /\ faults = t.faults
           /\ created = t.created
           /\ sev = t.sev

\* The fishing system played in the scene create has set up, the camera at
\* rest.
PlaySpec == PlayInit /\ [][Next]_vars

\* The hook positions of the fishing system in world coordinates: the
\* positions in the water rectangle lie in the fallback water area
\* (x 400..800, y 478..658), the others level with the player at (400, 300).
HookPoint(p) ==
    IF waterArea.left <= p /\ p <= waterArea.right
    THEN <<500, 550>>
    ELSE <<viewportWidth \div 2 + p, 300>>

\* The chunk indices and the noise values, in thousandths, over which
\* determineZoneType is evaluated: the middle of every hundredth, and the two
\* values the code compares with.
TypeChunks == -8..8
NoiseValues == {10 * v + 5 : v \in 0..99} \cup {400, 700}

\* A water-zone system about to determine the type of a chunk, the noise
\* value of the chunk drawn.
ZoneTypeInit ==
    /\ FishingStart
    /\ autoRetractEnabled = TRUE
    /\ StreamFieldsStart(1, 3)
    /\ \E K \in TypeChunks, n \in NoiseValues :
           sev = [NoStreamEvent("none") EXCEPT !.chunkIndex = K,
                                               !.noiseValue = n]

\* A call of determineZoneType.
DetermineZoneTypeCall ==
    /\ sev.op = "none"
    /\ \E t \in {[Stream EXCEPT
                     !.sev.op = "zoneType",
                     !.sev.zoneType =
                         ZoneTypeFor(sev.chunkIndex, sev.noiseValue)]} :
           StreamCommit(t)

ZoneTypeSpec == ZoneTypeInit /\ [][DetermineZoneTypeCall]_vars

\* The camera positions getVisibleChunkIndices is applied to.
VisibleCameraXs == {100 * c : c \in -60..60}

\* A terrain system about to compute the visible chunks of a camera position.
VisibleInit ==
    /\ FishingStart
    /\ autoRetractEnabled = TRUE
    /\ StreamFieldsStart(1, 3)
    /\ \E cameraX \in VisibleCameraXs :
           sev = [NoStreamEvent("none") EXCEPT !.camera = cameraX]

\* A call of getVisibleChunkIndices.
GetVisibleCall ==
    /\ sev.op = "none"
    /\ \E t \in {[Stream EXCEPT
                     !.sev.op = "visible",
                     !.sev.center = CenterChunk(sev.camera),
                     !.sev.visible = GetVisibleChunkIndices(sev.camera)]} :
           StreamCommit(t)

VisibleSpec == VisibleInit /\ [][GetVisibleCall]_vars

\* The water-zone streamer alone, called with any sequence of camera
\* positions.
WaterNext ==
    \/ WaterUpdate
    \/ WaterUpdateRaises
    \/ Query

WaterSpec == StreamInit /\ [][WaterNext]_vars

TypeOK ==
    /\ state \in FishingState
    /\ Len(timers) <= MaxTimers

(***************************************************************************)
(* Properties.                                                             *)
(***************************************************************************)
ReachableStates == {"IDLE", "CASTING", "WAITING_FOR_BITE", "BITE", "REELING",
                    "CAUGHT"}

\* A change of state <<from, to, by>> of the transition table.
TableChange(c) ==
    \/ c[1] = "IDLE" /\ c[2] = "CASTING" /\ c[3] = "startCast"
    \/ c[1] = "CASTING" /\ c[2] = "WAITING_FOR_BITE" /\ c[3] = "startFishing"
    \/ c[1] = "WAITING_FOR_BITE" /\ c[2] = "BITE" /\ c[3] = "triggerBite"
    \/ c[1] = "BITE" /\ c[2] = "REELING" /\ c[3] = "startReeling"
    \/ c[1] = "REELING" /\ c[2] = "CAUGHT" /\ c[3] = "catchFish"
    \/ c[2] = "IDLE" /\ c[3] = "reset"
    \/ c[1] = "CASTING" /\ c[2] = "IDLE" /\ c[3] = "startCast"

\* The handler that may make each forward change of state.
TableCause(c) ==
    /\ c[3] \in {"startCast", "startFishing", "startReeling"} => ev.op = "update"
    /\ c[3] = "triggerBite" => ev.op = "timer" /\ ev.kind = "bite"
    /\ c[3] = "catchFish" => ev.op = "timer" /\ ev.kind = "reel"

\* C1: the fishing state is always one of Idle, Casting, WaitingForBite, Bite,
\* Reeling, Caught (never FISHING), and every assignment to it made by a frame
\* update, a timer callback or reset() is a transition of the table:
\* Idle->Casting by the cast input of update, Casting->WaitingForBite by the
\* water detection of update, WaitingForBite->Bite by the bite timer,
\* Bite->Reeling by the reel input of update, Reeling->Caught by the reel
\* timer, Casting->Idle by the error path of startCast, or any state->Idle
\* through reset() (auto-retract, catch-window expiry, display delay, failure
\* of update, call from outside).
C1_StateTable ==
    /\ state \in ReachableStates
    /\ \A i \in 1..Len(ev.changes) :
           TableChange(ev.changes[i]) /\ TableCause(ev.changes[i])

\* A whole cycle has run: the reel timer has just moved Reeling to Caught.
C1_Witness ==
    /\ state = "CAUGHT"
    /\ ev.changes = <<<<"REELING", "CAUGHT", "catchFish">>>>

\* C2: a delayed call scheduled before a reset() that is dispatched after it
\* is a no-op: it changes neither the fishing state nor the line and hook
\* (no launch, no reset of the hook), and does not invoke the catch callback.
C2_StaleCallbackNoOp ==
    [][(ev'.op = "timer" /\ ev'.stale) =>
          /\ state' = state
          /\ isActive' = isActive
          /\ hookActive' = hookActive
          /\ hookPos' = hookPos
          /\ endPoint' = endPoint
          /\ ev'.call = "none"
          /\ ~ev'.launch]_vars

\* The line was reset by a failure of its own update or of the launch while
\* the cast was in progress, and no delayed call is left.
Stranded == state = "CASTING" /\ ~isActive /\ timers = <<>>

\* C3: the fishing state machine never stays stuck: while frames are
\* delivered and timers fire, a state other than Idle leads to Idle without a
\* call of reset() from outside, also once the line's own update or the hook
\* launch has failed during Casting.
C3_NeverStuck == Stranded ~> (state = "IDLE")

\* C4: when a step of update raises an exception that reaches one of its
\* catch blocks, the state is Idle when update returns and neither the bite
\* timer nor the catch-window timer is pending.
C4_UpdateFailureResets ==
    (ev.op = "update" /\ ev.failed \notin {"none", "lineInner"}) =>
        /\ state = "IDLE"
        /\ fishingTimer = "null" /\ catchWindow = "null"
        /\ Pending("bite") = {} /\ Pending("catchWindow") = {}

\* The bite indicator raised during Bite, with the catch window running.
C4_Witness ==
    /\ ev.op = "update" /\ ev.failed = "indicator" /\ ev.from = "BITE"
    /\ state = "IDLE"

\* C5: the catch callback is invoked only when the display delay of a cycle
\* that went Reeling->Caught elapses and that cycle was not reset before,
\* with the item resolved on entry to Caught; never after a fish escape, an
\* auto-retract or a reset.
C5_CallbackOnlyForCatch ==
    ev.call # "none" =>
        /\ ev.op = "timer" /\ ev.kind = "display" /\ ~ev.stale
        /\ ev.from = "CAUGHT"

\* C6: when the catch window (2000 ms) expires the state was Bite and becomes
\* Idle, the fish is recorded as escaped, no catch callback is invoked and no
\* display delay of that cycle is left; once reeling has started no
\* catch-window timer is pending, so none expires during Reeling or Caught.
C6_CatchWindow ==
    /\ (ev.op = "timer" /\ ev.kind = "catchWindow") =>
           /\ ev.from = "BITE" /\ state = "IDLE" /\ ev.fishEscaped
           /\ ev.call = "none"
           /\ \A i \in Pending("display") : timers[i].stale
    /\ \A i \in Pending("catchWindow") :
           timers[i].delay = 2000 /\ timers[i].slot = "catchWindow"
    /\ state \in {"REELING", "CAUGHT"} =>
           Pending("catchWindow") = {} /\ catchWindow = "null"

\* The catch window has just expired in Bite.
C6_Witness ==
    /\ ev.op = "timer" /\ ev.kind = "catchWindow" /\ ev.from = "BITE"
    /\ state = "IDLE"

\* Reeling has started within the catch window.
C6_WitnessReel == state = "REELING" /\ ev.reelBy # "none"

\* C7: a frame that checks the settling of the hook in Casting (line active,
\* hook out of water) and finds it touching ground with a movement below the
\* threshold (15) leaves exactly one settle delay of 1000 ms pending; when a
\* settle delay elapses with the hook grounded and out of water the state
\* becomes Idle if autoRetractEnabled, and with autoRetractEnabled = false
\* the settle callback never changes the state.
C7_AutoRetract ==
    /\ (ev.op = "update" /\ ev.moved >= 0 /\ ev.moved < 15 /\ touchingDown) =>
           /\ Cardinality(Pending("settle")) = 1
           /\ \A i \in Pending("settle") :
                  timers[i].delay = 1000 /\ timers[i].slot = "hookSettleTimer"
           /\ hookSettleTimer = "set"
           /\ state = "CASTING"
    /\ (ev.op = "timer" /\ ev.kind = "settle" /\ touchingDown
          /\ ~(20 <= endPoint /\ endPoint <= 30)) =>
           IF autoRetractEnabled
           THEN state = "IDLE" /\ ~isActive /\ ~hookActive
           ELSE state = ev.from /\ ev.changes = <<>>
    /\ (ev.op = "timer" /\ ev.kind = "settle" /\ ~autoRetractEnabled) =>
           ev.changes = <<>>

\* The settle delay has just retracted a cast that landed on dry ground.
C7_Witness ==
    /\ ev.op = "timer" /\ ev.kind = "settle" /\ autoRetractEnabled
    /\ ev.changes = <<<<"CASTING", "IDLE", "reset">>>>

\* The settle delay has elapsed on dry ground with auto-retraction disabled.
C7_WitnessDisabled ==
    /\ ev.op = "timer" /\ ev.kind = "settle" /\ ~autoRetractEnabled
    /\ touchingDown /\ endPoint < 20 /\ state = "CASTING"

\* C8: an update that starts in Casting, raises nothing and, after the line
\* has followed the hook, finds the line active with its end point inside
\* the water rectangle returns in WaitingForBite, having scheduled exactly
\* one bite timer, of 1000..4000 ms, held by fishingTimer.
C8_WaterDetection ==
    (/\ ev.op = "update" /\ ev.from = "CASTING" /\ ev.failed = "none"
     /\ isActive /\ 20 <= endPoint /\ endPoint <= 30) =>
        /\ state = "WAITING_FOR_BITE"
        /\ ev.sched = <<"bite">>
        /\ Cardinality(Pending("bite")) = 1
        /\ \A i \in Pending("bite") :
               /\ timers[i].slot = "fishingTimer" /\ ~timers[i].stale
               /\ 1000 <= timers[i].delay /\ timers[i].delay <= 4000
        /\ fishingTimer = "set"

\* The hook has just been seen in the water.
C8_Witness ==
    /\ ev.op = "update" /\ ev.from = "CASTING" /\ ev.sched = <<"bite">>
    /\ state = "WAITING_FOR_BITE"

\* A launch call of the cast in progress.
LiveLaunches == {i \in Pending("launch") : ~timers[i].stale}

\* C9: the update that accepts a cast input in Idle, and whose startCast does
\* not raise, enters Casting, plays the cast animation and schedules one
\* launch, 100 ms later; the hook is launched only by the launch call of the
\* cast in progress, while the state is Casting, and a cast has one launch
\* call.
C9_OneLaunchPerCast ==
    /\ (/\ \E i \in 1..Len(ev.changes) : ev.changes[i][3] = "startCast"
        /\ ev.failed \notin {"castEarly", "castLate"}) =>
           /\ ev.op = "update" /\ ev.from = "IDLE" /\ ev.anim
           /\ ev.changes[1] = <<"IDLE", "CASTING", "startCast">>
           /\ ev.sched[1] = "launch"
    /\ \A i \in Pending("launch") : timers[i].delay = 100
    /\ Cardinality(LiveLaunches) <= 1
    /\ ev.launch =>
           ev.op = "timer" /\ ev.kind = "launch" /\ ~ev.stale /\ state = "CASTING"

\* C10: reeling starts only on a reel input that occurs while the state is
\* Bite: the R key edge seen by an update in Bite, or a right-button press
\* made in Bite; a press made before Bite was entered does not start it.
C10_ReelEdgeInBite ==
    /\ (\E i \in 1..Len(ev.changes) : ev.changes[i][2] = "REELING") =>
           ev.op = "update" /\ ev.from = "BITE" /\ ev.reelBy \in {"key", "click"}
    /\ ev.reelBy = "click" => ev.pressed = "BITE"

\* C11: when the display delay of a cycle that is still in Caught elapses, the
\* catch callback is invoked while the state is still Caught and the hook not
\* yet reset, and reset() runs after it: the handler ends in Idle.
C11_CallbackBeforeReset ==
    (ev.op = "timer" /\ ev.kind = "display" /\ ev.from = "CAUGHT"
       /\ ev.call # "none") =>
        /\ ev.callIn = "CAUGHT"
        /\ state = "IDLE"

\* C13: whenever the fishing state is Idle the line is inactive and the hook
\* is deactivated.
C13_IdleHookInactive == state = "IDLE" => ~isActive /\ ~hookActive

\* C12: in a frame of the scene the streamers run before the fishing update,
\* so the fishing update sees the chunks and zones streamed for this frame:
\* those it saw are those loaded when the frame ends.
C12_StreamedBeforeFishing ==
    sev.op = "scene" =>
        /\ sev.sawChunks = loadedChunks
        /\ sev.sawZones = waterZones

\* The last streamer call was a call of terrainSystem.update that the
\* movement threshold did not skip.
TerrainRan == sev.op \in {"terrain", "scene"} /\ ~sev.skipped

\* The visible window of a centre chunk.
Window(c) == (c - chunksToLoad)..(c + chunksToLoad)

\* C14: after a call of TerrainSystem.update that the movement threshold did
\* not skip, the loaded chunk indices are exactly the visible window of the
\* centre chunk.
C14_LoadedIsWindow == TerrainRan => loadedChunks = Window(sev.center)

ActiveIn(group, K) == {b \in group : InChunk(b, K)}

C17_ReloadRestores ==
    [][/\ (sev'.op \in {"terrain", "scene"} /\ ~sev'.skipped) =>
              \A K \in sev'.requested \cap unloadedBefore :
                  /\ K \notin sev'.noise
                  /\ ActiveIn(sev'.made, K) = {}
                  /\ ActiveIn(terrainGroup', K) =
                         {b \in ActiveIn(created', K) : b.gen = 1}
       /\ \A e \in chunkCache : e.blocks # {} => e \in chunkCache']_vars

\* C19: a chunk whose generation raised is not recorded in the loaded set
\* by that call, so that a later call with the chunk in its window
\* generates it again.
C19_FailedChunkLeftUnloaded == TerrainRan => sev.failed \cap loadedChunks = {}

\* C18: an exception raised for one chunk does not end the call: in the
\* terrain streamer the other requested chunks are generated and the unload
\* pass unloads every distant chunk; in the water-zone streamer the other
\* zones of the range that should hold water are generated and the unload
\* pass runs.
C18_FailureIsolated ==
    /\ (TerrainRan /\ sev.failed \cup sev.failedUnload # {}) =>
           /\ \A K \in sev.requested \ sev.failed :
                  Cardinality(ActiveIn(terrainGroup, K)) = Len(Columns)
           /\ \A K \in loadedChunks : Abs(K - sev.center) <= maxDistance
    /\ (sev.op \in {"water", "scene"} /\ sev.zoneFailed # {}) =>
           /\ \A k \in sev.zoneRange \ sev.zoneFailed :
                  ShouldGenerateWater(k, waterSeed) => k \in waterZones
           /\ sev.evicted

Band(i, f) == {r \in Hundredths : DetermineCaughtItem(r, f) = i}

Tier(i, r) == {f \in Hundredths : DetermineCaughtItem(r, f) = i}

\* C26: determineCaughtItem returns treasure for r < 0.1, junk for
\* 0.1 <= r < 0.3 and otherwise common_fish for f < 0.6, uncommon_fish for
\* 0.6 <= f < 0.9 and rare_fish for f >= 0.9; the result is one of the five
\* items, treasure is the narrowest band and rare_fish the narrowest tier.
C26_DrawPartition ==
    ev.op = "draw" =>
        /\ ev.item \in Items
        /\ ev.item = "treasure" <=> ev.rand < 10
        /\ ev.item = "junk" <=> (10 <= ev.rand /\ ev.rand < 30)
        /\ ev.item = "common_fish" <=> (ev.rand >= 30 /\ ev.fishRand < 60)
        /\ ev.item = "uncommon_fish" <=>
               (ev.rand >= 30 /\ 60 <= ev.fishRand /\ ev.fishRand < 90)
        /\ ev.item = "rare_fish" <=> (ev.rand >= 30 /\ ev.fishRand >= 90)
        /\ Cardinality(Band("treasure", ev.fishRand))
               < Cardinality(Band("junk", ev.fishRand))
        /\ Cardinality(Band("junk", ev.fishRand))
               < Cardinality(Hundredths \ (Band("treasure", ev.fishRand)
                                           \cup Band("junk", ev.fishRand)))
        /\ Cardinality(Tier("rare_fish", 30)) < Cardinality(Tier("uncommon_fish", 30))
        /\ Cardinality(Tier("uncommon_fish", 30)) < Cardinality(Tier("common_fish", 30))

\* The draws at the two inner boundaries: r = 0.3 and f = 0.9.
C26_Witness ==
    ev.op = "draw" /\ ev.rand = 30 /\ ev.fishRand = 90 /\ ev.item = "rare_fish"

\* C28: at most one delayed call of each kind (cast launch, bite delay, catch
\* window, reel, caught display, hook settle) is pending at any moment.
C28_OnePendingPerSlot ==
    \A kind \in TimerKinds : Cardinality(Pending(kind)) <= 1

\* C29: the expiry of a hook-settle delay resets the machine only from
\* CASTING, and only when the delay was started during the cast in progress
\* (no reset() since it was scheduled).
C29_RetractOnlyWhileCasting ==
    (/\ ev.op = "timer"
     /\ ev.kind = "settle"
     /\ \E i \in 1..Len(ev.changes) : ev.changes[i][3] = "reset") =>
        /\ ev.from = "CASTING"
        /\ ~ev.stale

\* The kinds of the delayed calls the last handler scheduled.
Scheduled == {ev.sched[i] : i \in 1..Len(ev.sched)}

\* C30: a frame whose checkHookSettled finds the hook off the ground or moved
\* by hookMovementThreshold or more leaves no settle delay pending and starts
\* none; a frame starts a settle delay only when the hook touches the ground
\* and moved less than the threshold.
C30_SettleCancelledOnMovement ==
    /\ (/\ ev.op = "update"
        /\ ev.moved # -1
        /\ ~touchingDown \/ ev.moved >= hookMovementThreshold) =>
           /\ hookSettleTimer = "null"
           /\ Pending("settle") = {}
           /\ "settle" \notin Scheduled
    /\ (ev.op = "update" /\ "settle" \in Scheduled) =>
           /\ touchingDown
           /\ ev.moved # -1
           /\ ev.moved < hookMovementThreshold

\* A frame during CASTING that cancelled a pending settle delay because the
\* hook had moved.
C30_Witness ==
    /\ ev.op = "update"
    /\ ev.from = "CASTING"
    /\ state = "CASTING"
    /\ "settle" \in ev.cancelled
    /\ ev.moved >= hookMovementThreshold

\* C21: a zone generated again for a chunk, after the eviction of the zone of
\* that chunk, has the type, the area and the fish population of the zone
\* generated before, whatever terrain is loaded when it is generated.
C21_ZoneRegeneratedEqual ==
    \A a \in generatedZones : \A b \in generatedZones : a.chunk = b.chunk => a = b

\* C23: the adjustment of a generated zone to the terrain never increases the
\* height of the water, leaves its bottom edge on the world floor and its top
\* no higher than the margin above the highest terrain block under it, and
\* keeps the original bounds only when the adjusted height would be minWater
\* or less.
C23_WaterAvoidsTerrain ==
    sev.op \in {"water", "scene"} =>
        \A m \in sev.zonesMade :
            /\ m.zone.area.height <= m.before.height
            /\ m.zone.area.y + m.zone.area.height = worldHeight
            /\ m.zone.area.x = m.before.x
            /\ m.zone.area.width = m.before.width

\* The seeds over which the gate and the zone type of chunk 0 are evaluated.
GateSeeds == 0..99

\* The first update of the scene, at camera position 0.
FirstUpdateAtOrigin ==
    /\ sev.op = "scene"
    /\ sev.camera = 0
    /\ sev.before = {}
    /\ sev.sawZones = {}

C27_ColumnHeightBounded ==
    \A c \in created :
        minHeight <= c.height /\ c.height <= minHeight + maxHeightVariation

\* ... of which the part that holds of the columns TerrainSystem.ts generates.
C27_FirstRevisionBounded ==
    sev.op # "columnLater" => C27_ColumnHeightBounded

\* The active zones that contain the point of the last query.
Hits ==
    {i \in 1..Len(activeZones) :
        Contains(activeZones[i].area, sev.point[1], sev.point[2])}

FirstHit == CHOOSE i \in Hits : \A j \in Hits : i <= j

\* C24: at every point the three queries agree: isInWater is true exactly
\* when getWaterTypeAt and getFishPopulationAt are non-null, the type and the
\* population are those of the first active zone that contains the point, and
\* that zone has not been evicted (it is the zone the map holds for its chunk).
C24_QueriesAgree ==
    sev.op = "query" =>
        /\ sev.inWater <=> Hits # {}
        /\ sev.inWater <=> sev.typeAt # "null"
        /\ sev.inWater <=> sev.populationAt # <<>>
        /\ Hits # {} =>
               /\ sev.typeAt = activeZones[FirstHit].type
               /\ sev.populationAt = <<activeZones[FirstHit].fishPopulation>>
               /\ activeZones[FirstHit].chunk \in waterZones
               /\ FirstHit = ZoneAt(activeZones, activeZones[FirstHit].chunk)

\* ... of which the part that holds: the three queries agree with each other
\* and with the first active zone that contains the point.
C24_QueriesAgreeOnActive ==
    sev.op = "query" =>
        /\ sev.inWater <=> Hits # {}
        /\ sev.inWater <=> sev.typeAt # "null"
        /\ sev.inWater <=> sev.populationAt # <<>>
        /\ Hits # {} =>
               /\ sev.typeAt = activeZones[FirstHit].type
               /\ sev.populationAt = <<activeZones[FirstHit].fishPopulation>>

\* The names determineCaughtItem returns.
GenericNames == {"common_fish", "uncommon_fish", "rare_fish", "treasure", "junk"}

\* The names of the lists of a fish population.
ItemNames(population) ==
    population.commonFish \cup population.uncommonFish
        \cup population.rareFish \cup population.specialItems

\* The fish population of the active zone the end of the line is in, if any.
PopulationAtHook ==
    GetFishPopulationAt(activeZones, HookPoint(endPoint)[1], HookPoint(endPoint)[2])

\* catchFish has just resolved a catch.
CatchResolved == ev.op = "timer" /\ ev.kind = "reel" /\ ev.item # "none"

\* C25: a catch resolved while the hook is inside an active water zone is an
\* item of the lists of the fish population of that zone, and none of the
\* generic names.
C25_CatchFromZonePopulation ==
    (CatchResolved /\ PopulationAtHook # <<>>) =>
        /\ ev.item \in ItemNames(PopulationAtHook[1])
        /\ ev.item \notin GenericNames

\* A catch resolved with the hook in an active zone.
C25_InZone == CatchResolved /\ PopulationAtHook # <<>>

\* C31: the pending timers match the state: a pending bite timer implies
\* WAITING_FOR_BITE, a pending catch window BITE, a pending reel timer
\* REELING, and a pending settle timer CASTING.
C31_TimersMatchState ==
    /\ Pending("bite") # {} => state = "WAITING_FOR_BITE"
    /\ Pending("catchWindow") # {} => state = "BITE"
    /\ Pending("reel") # {} => state = "REELING"
    /\ Pending("settle") # {} => state = "CASTING"

\* ... of which the parts for the timers reset() removes.
C31_BiteTimerMatches == Pending("bite") # {} => state = "WAITING_FOR_BITE"

C31_WindowMatches == Pending("catchWindow") # {} => state = "BITE"

C31_ReelTimerMatches == Pending("reel") # {} => state = "REELING"

C31_SettleTimerMatches == Pending("settle") # {} => state = "CASTING"

\* A settle timer still pending after the cast has landed in the water.
C31_SettleWhileWaiting == Pending("settle") # {} /\ state = "WAITING_FOR_BITE"

\* The states of a fishing cycle after the cast has landed in the water.
InCycle == state \in {"WAITING_FOR_BITE", "BITE", "REELING", "CAUGHT"}

\* C32: once WAITING_FOR_BITE is entered the machine returns to IDLE, provided
\* frames are delivered and the scheduled timers fire: it stays in none of
\* WAITING_FOR_BITE, BITE, REELING and CAUGHT forever.
\* In each state of the cycle the timer that ends it is scheduled, with its
\* delay: bite 1000..4000 ms, catch window 2000 ms, reel 1500 ms, display
\* 1000 ms.
CycleTimerPending ==
    /\ state = "WAITING_FOR_BITE" =>
           \E i \in Pending("bite") :
               1000 <= timers[i].delay /\ timers[i].delay <= 4000
    /\ state = "BITE" =>
           \E i \in Pending("catchWindow") : timers[i].delay = catchWindowDuration
    /\ state = "REELING" =>
           \E i \in Pending("reel") : timers[i].delay = ReelDuration
    /\ state = "CAUGHT" =>
           \E i \in Pending("display") : timers[i].delay = DisplayDelay

C32_CycleEnds == [](CycleTimerPending) /\ (InCycle ~> (state = "IDLE"))

\* A cycle that went through REELING and CAUGHT ends in IDLE.
C32_Witness ==
    /\ state = "IDLE"
    /\ ev.op = "timer" /\ ev.kind = "display" /\ ev.from = "CAUGHT"

\* The noise values for which determineZoneType gives chunk K the type ty.
TypeBand(K, ty) == {n \in NoiseValues : ZoneTypeFor(K, n) = ty}

\* The zone type by chunk index and noise value.
ZoneTypeTable(K, n) ==
    IF K = 0 THEN "lake"
    ELSE IF Abs(K) > 5 /\ n > 400 THEN "ocean"
    ELSE IF n < 400 THEN "lake"
    ELSE IF 400 <= n /\ n < 700 THEN "river"
    ELSE "ocean"

C33_ZoneTypeFunction ==
    sev.op = "zoneType" =>
        sev.zoneType = ZoneTypeTable(sev.chunkIndex, sev.noiseValue)

\* Beyond distance 5 the only noise value that gives a river is 0.4 itself.
C33_RiverOnlyAtBoundary ==
    \A K \in TypeChunks :
        Abs(K) > 5 => TypeBand(K, "river") = {400}

\* The material of a block by its depth from the top of its column.
MaterialAtDepth(d) ==
    IF d = 0 THEN "terrain_dirt"
    ELSE IF d <= 2 THEN "terrain_sand"
    ELSE "terrain_rock"

\* C34: in every generated column the topmost block is terrain_dirt, the next
\* two below it are terrain_sand and all deeper blocks are terrain_rock; every
\* block of the column is a solid block.
C34_MaterialsByDepth ==
    sev.op \in {"column", "columnLater"} =>
        \A j \in 1..Len(sev.types) :
            sev.types[j] = MaterialAtDepth(Len(sev.types) - j)

\* ... of which the part that holds of the columns TerrainSystem.ts generates.
C34_FirstRevisionByDepth ==
    sev.op = "column" =>
        \A j \in 1..Len(sev.types) :
            sev.types[j] = MaterialAtDepth(Len(sev.types) - j)

\* The horizontal component of the facing-direction default.
FacingDefault == IF ev.facingRight THEN 1000 ELSE -1000

\* C35: when the pointer is directly above the rod tip (no horizontal offset)
\* the direction of the cast is the facing-direction default: horizontal
\* component +1 facing right and -1 facing left, with an upward vertical
\* component.
C35_FallbackWhenAbove ==
    (ev.op = "aim" /\ ev.offset[1] = 0 /\ ev.offset[2] <= 0) =>
        /\ ev.direction[1] = FacingDefault
        /\ ev.direction[2] < 0

\* ... of which the part that holds: with the pointer on the rod tip itself
\* the horizontal component is the facing-direction default.
C35_FallbackAtTip ==
    (ev.op = "aim" /\ ev.offset = <<0, 0>>) => ev.direction[1] = FacingDefault

\* The squared length of the direction returned, in millionths.
SquaredLength == ev.direction[1] * ev.direction[1] + ev.direction[2] * ev.direction[2]

\* C36: for every pointer and rod-tip position the direction returned by
\* calculateCastDirection has unit length (to half a percent, for the rounding
\* of the thousandths), the fallback included, and its downward component does
\* not exceed 0.7.
C36_UnitAndCapped ==
    ev.op = "aim" =>
        /\ SquaredLength >= 990000
        /\ SquaredLength <= 1010000
        /\ ev.direction[2] <= 700

\* ... of which the part that holds: a direction that is neither the fallback
\* nor capped has unit length.
C36_UnitWhenUncapped ==
    (ev.op = "aim" /\ ev.offset # <<0, 0>> /\ ev.direction[2] <= 700) =>
        /\ SquaredLength >= 990000
        /\ SquaredLength <= 1010000


\* The consecutive chunk indices c - r .. c + r, in order.
Consecutive(c, r) == [j \in 1..(2 * r + 1) |-> c - r + j - 1]

\* C37: getVisibleChunkIndices(cameraX) returns exactly the five consecutive
\* chunk indices centerChunk - 2 .. centerChunk + 2, where centerChunk is
\* floor(cameraX / 512); for cameraX = 400 that is -2, -1, 0, 1, 2.
C37_FiveVisible ==
    sev.op = "visible" =>
        /\ sev.center = sev.camera \div 512
        /\ sev.visible = Consecutive(sev.center, 2)
        /\ sev.camera = 400 => sev.visible = <<-2, -1, 0, 1, 2>>

\* The part of C37 that holds: the result is the run of consecutive indices
\* around floor(cameraX / 512), of radius chunksToLoad.
C37_ConsecutiveAroundCenter ==
    sev.op = "visible" =>
        /\ sev.center = sev.camera \div 512
        /\ sev.visible = Consecutive(sev.center, chunksToLoad)

\* getVisibleChunkIndices(400) has returned.
C37_At400 == sev.op = "visible" /\ sev.camera = 400

\* C38: after each call of TerrainSystem.update, skipped or not, every chunk
\* index within distance 2 of the camera's chunk is in the loaded set, no
\* loaded chunk is farther than 6 chunks from it, and the loaded set is not
\* empty.
C38_LoadedAroundCamera ==
    sev.op = "terrain" =>
        /\ \A k \in (sev.center - 2)..(sev.center + 2) : k \in loadedChunks
        /\ \A k \in loadedChunks : Abs(k - sev.center) <= 6
        /\ loadedChunks # {}

\* A skipped call has left a chunk loaded that is 6 chunks from the camera's
\* chunk, and a chunk at distance 2 that the window of the last call that ran
\* holds at its edge.
C38_Witness ==
    /\ sev.op = "terrain"
    /\ sev.skipped
    /\ \E k \in loadedChunks : Abs(k - sev.center) = 6
    /\ \E k \in loadedChunks :
           Abs(k - sev.center) = 2 /\ Abs(k - lastCenterChunkIndex) = chunksToLoad

\* The last streamer call was a call of waterZoneSystem.update, on its own or
\* in a frame of the scene.
WaterRan == sev.op \in {"water", "scene"}

\* The part of C39 on the zones a call generates: each is still held, in the
\* map and in the list, when the call returns, and its centre is at most
\* loadDistance + zoneChunkSize / 2 = 1600 from the camera centre.
C39_GeneratedKept ==
    WaterRan =>
        \A m \in sev.zonesMade :
            /\ m.zone.chunk \in waterZones
            /\ ZonesOf(activeZones, m.zone.chunk) # {}
            /\ Abs(ZoneCenterX(m.zone.chunk) - sev.camera)
                   <= loadDistance + zoneChunkSize \div 2
            /\ loadDistance + zoneChunkSize \div 2 = 1600
            /\ unloadDistance = 1800

\* The part of C39 on the active zones: the centre of each is within the
\* unload distance of the camera centre when the call returns.
C39_ActiveNear ==
    WaterRan =>
        \A i \in 1..Len(activeZones) :
            Abs(ZoneCenterX(activeZones[i].chunk) - sev.camera) <= unloadDistance

\* C39: with a viewport width of 800, a water zone generated during a call of
\* WaterZoneSystem.update is never unloaded by the unload pass of that call
\* (its centre is at most 1600 from the camera centre, below the unload
\* distance 1800), and after every call each active zone's centre is within
\* 1800 of the camera centre.
C39_ZonesNearCamera == C39_GeneratedKept /\ C39_ActiveNear

\* At most one active zone per water chunk index.
C40_OnePerChunk ==
    \A i, j \in 1..Len(activeZones) :
        activeZones[i].chunk = activeZones[j].chunk => i = j

\* The horizontal extent of every active zone lies inside its own chunk.
C40_InsideChunk ==
    \A i \in 1..Len(activeZones) :
        LET z == activeZones[i]
        IN  /\ z.chunk * zoneChunkSize <= z.area.x
            /\ z.area.x + z.area.width <= (z.chunk + 1) * zoneChunkSize
            /\ zoneChunkSize = 800

\* No two active zones overlap.
C40_NoOverlap ==
    \A i, j \in 1..Len(activeZones) :
        i # j =>
            LET a == activeZones[i].area
                b == activeZones[j].area
            IN  \/ a.x + a.width < b.x \/ b.x + b.width < a.x
                \/ a.y + a.height < b.y \/ b.y + b.height < a.y

\* The waterZones map and the activeZones list hold the same zones.
C40_MapIsList ==
    /\ {activeZones[i].chunk : i \in 1..Len(activeZones)} = waterZones
    /\ Len(activeZones) = Cardinality(waterZones)

\* C40: at most one water zone exists per water chunk index, the horizontal
\* extent of every zone lies inside its own 800-pixel chunk, no two active
\* water zones overlap, the waterZones map and the activeZones list hold the
\* same zones, and no query is decided by the first-match tie-break between
\* zones that both contain its point.
C40_ZonesDisjoint ==
    /\ C40_OnePerChunk
    /\ C40_InsideChunk
    /\ C40_NoOverlap
    /\ C40_MapIsList
    /\ sev.op = "query" => Cardinality(Hits) <= 1

\* A query has been answered at a point that two active zones contain.
C40_TieBreakDecides == sev.op = "query" /\ Cardinality(Hits) > 1
=============================================================================
